---- MODULE Spec2Model ----
(***************************************************************************)
(* Model of the TSQLLint language server (server/src):                     *)
(*   - NodeBinaryExecutor.execute      (platform/BinaryExecutor.ts)        *)
(*   - TSQLLintRuntimeHelper           (TSQLLintToolsHelper.ts)            *)
(*   - parseErrors                     (parseError.ts)                     *)
(*   - ValidateBuffer and the handlers (server.ts)                         *)
(* Text is a sequence of one-character strings.                            *)
(***************************************************************************)
EXTENDS Integers, Sequences, FiniteSets, TLC

VARIABLES
  exec,        \* the one execute() call: its promise, its child process
  clock,       \* milliseconds since the child process was spawned
  host,        \* os.type() and process.arch of the server process
  rt,          \* the TSQLLintRuntime() calls, by call
  tsqllintToolsPath,  \* TSQLLintRuntimeHelper._tsqllintToolsPath
  pathWrites,  \* number of assignments to _tsqllintToolsPath so far
  disk,        \* what exists under <applicationRoot>/tsqllint
  documents,   \* the open TextDocument objects, by uri (text, version)
  globalSettings,  \* globalSettings of server.ts
  val,         \* the handler invocations (change, fix, will-save), by call
  scratch,     \* the scratch file of each call: absent, or its content
  fileErrors,  \* the Command Registry: the stored command set, by uri
  published,   \* the diagnostics the client shows, by uri
  lastPass,    \* how the latest finished binary run ended, by uri
  codeAction,  \* the latest code-action request and its answer
  parsed,      \* the latest parse call: its arguments and its result
  registered,  \* history of the RegisterFileErrors steps: the findings handed
               \* to the latest one and the rules it superseded, by uri
  textEdit     \* the latest getTextEdit call after its validation: the client's
               \* document (its lines), the fixed content, the edits returned

vars == << exec, clock, host, rt, tsqllintToolsPath, pathWrites, disk,
          documents, globalSettings, val, scratch, fileErrors, published, lastPass,
          codeAction, parsed, registered, textEdit >>
queryVars == << codeAction, parsed, registered, textEdit >>
serverVars == << documents, globalSettings, val, scratch, fileErrors, published, lastPass >>
execVars == << exec, clock >>
runtimeVars == << host, rt, tsqllintToolsPath, pathWrites, disk >>

(***************************************************************************)
(* String primitives of JavaScript, on sequences of characters.            *)
(***************************************************************************)
RECURSIVE IndexOfFrom(_, _, _)
IndexOfFrom(s, ch, i) ==
  IF i > Len(s) THEN -1
  ELSE IF s[i] = ch THEN i - 1
  ELSE IndexOfFrom(s, ch, i + 1)

\* String.prototype.indexOf for a one-character needle: 0-based, -1 if absent
indexOf(s, ch) == IndexOfFrom(s, ch, 1)

Clamp(n, lo, hi) == IF n < lo THEN lo ELSE IF n > hi THEN hi ELSE n

\* String.prototype.substring(a, b): 0-based, b exclusive, arguments clamped
\* to [0, length] and swapped when a > b
substring(s, a, b) ==
  LET ca == Clamp(a, 0, Len(s))
      cb == Clamp(b, 0, Len(s))
      lo == IF ca < cb THEN ca ELSE cb
      hi == IF ca < cb THEN cb ELSE ca
  IN  SubSeq(s, lo + 1, hi)

\* String.prototype.split for a one-character separator ("" gives <<"">>)
RECURSIVE split(_, _)
split(s, sep) ==
  LET i == indexOf(s, sep)
  IN  IF i = -1 THEN << s >>
      ELSE << SubSeq(s, 1, i) >> \o split(SubSeq(s, i + 2, Len(s)), sep)

(***************************************************************************)
(* Binary Executor: NodeBinaryExecutor.execute                             *)
(***************************************************************************)
DefaultTimeoutMs == 30000
CustomTimeoutMs == 5000
MaxChunks == 2

TimeoutValues == {DefaultTimeoutMs, CustomTimeoutMs}
ExitCodes == {0, 1}

\* what the child process may write to standard output, chunk by chunk
ChunkFinding == << "f", "(", "1", ",", "1", ")", ":", " ", "r", ":", " ", "m", "\r", "\n" >>
ChunkNoise == << "o", "k", "\n" >>
ChunkParenFirst == << "(", "2", ")", "\n" >>
ChunkTwoParens == << "(", "a", "(", "b", "\n" >>
ChunkOpen == << "g", "(" >>
StdoutChunks == {ChunkFinding, ChunkNoise, ChunkParenFirst, ChunkTwoParens, ChunkOpen}

NoValue == [lines |-> << >>, error |-> "none", detail |-> 0]
LinesValue(ls) == [lines |-> ls, error |-> "none", detail |-> 0]
ErrorValue(kind, n) == [lines |-> << >>, error |-> kind, detail |-> n]

\* a loop that keeps a matching line from its start
RECURSIVE KeepLines_FromStart(_)
KeepLines_FromStart(ls) ==
  IF ls = << >> THEN << >>
  ELSE LET element == Head(ls)
           index == indexOf(element, "(")
       IN  (IF index > 0
            THEN << substring(element, 0, Len(element) - 1) >>
            ELSE << >>) \o KeepLines_FromStart(Tail(ls))

\* the close handler's loop over result.split("\n")
RECURSIVE KeepLines(_)
KeepLines(ls) ==
  IF ls = << >> THEN << >>
  ELSE LET element == Head(ls)
           index == indexOf(element, "(")
       IN  (IF index > 0
            THEN << substring(element, index, Len(element) - 1) >>
            ELSE << >>) \o KeepLines(Tail(ls))

ResultLines(result) == KeepLines(split(result, "\n"))

\* a close handler that resolves whatever the exit code
CloseOutcome_AnyCode(result, code) == LinesValue(ResultLines(result))

\* what the close handler settles the promise with: the result lines for
\* exit code 0, an error naming the code otherwise
CloseOutcome(result, code) ==
  IF code = 0 THEN LinesValue(ResultLines(result)) ELSE ErrorValue("exit", code)

\* resolve / reject of the promise execute returns: the first call settles
\* it, every later call is ignored
Settle_Overwrite(e, state, value) ==
  [e EXCEPT !.outcome = state, !.value = value]

Settle(e, state, value) ==
  IF e.outcome = "pending"
  THEN [e EXCEPT !.outcome = state, !.value = value]
  ELSE [e EXCEPT !.late = @ + 1]

ExecInit ==
  [pc |-> "idle", timeoutMs |-> DefaultTimeoutMs, listeners |-> {},
   stdout |-> << >>, chunks |-> 0, closed |-> FALSE, closedAt |-> 0,
   errored |-> FALSE, errorFirst |-> FALSE,
   outcome |-> "pending", value |-> NoValue,
   kills |-> 0, late |-> 0, uncaught |-> FALSE]

\* an execute that leaves a failed spawn to a later event
Execute_SpawnErrorDropped(timeoutMs, spawnThrows) ==
  /\ exec.pc = "idle"
  /\ exec' = IF spawnThrows
             THEN [exec EXCEPT !.pc = "nospawn", !.timeoutMs = timeoutMs]
             ELSE [exec EXCEPT !.pc = "running", !.timeoutMs = timeoutMs,
                               !.listeners = {"data", "close", "error"}]
  /\ UNCHANGED << clock, runtimeVars, serverVars, queryVars >>

\* execute(binaryPath, args): spawn throws, or the listeners are registered.
\* timeoutMs is what the caller asks for; execute takes no such parameter.
Execute(timeoutMs, spawnThrows) ==
  /\ exec.pc = "idle"
  /\ exec' = IF spawnThrows
             THEN Settle([exec EXCEPT !.pc = "nospawn", !.timeoutMs = timeoutMs],
                         "rejected", ErrorValue("spawn", 0))
             ELSE [exec EXCEPT !.pc = "running", !.timeoutMs = timeoutMs,
                               !.listeners = {"data", "close", "error"}]
  /\ UNCHANGED << clock, runtimeVars, serverVars, queryVars >>

\* childProcess.stdout.on("data")
OnStdoutData(chunk) ==
  /\ exec.pc = "running"
  /\ ~exec.closed
  /\ exec.chunks < MaxChunks
  /\ exec' = [exec EXCEPT !.stdout = @ \o chunk, !.chunks = @ + 1]
  /\ UNCHANGED << clock, runtimeVars, serverVars, queryVars >>

\* childProcess.on("close", code)
OnClose(code) ==
  /\ exec.pc = "running"
  /\ ~exec.closed
  /\ LET e == [exec EXCEPT !.closed = TRUE, !.closedAt = clock]
         outcome == CloseOutcome(e.stdout, code)
     IN  exec' = Settle(e, IF outcome.error = "none" THEN "resolved" ELSE "rejected",
                        outcome)
  /\ UNCHANGED << clock, runtimeVars, serverVars, queryVars >>

\* childProcess.on("error", reject); an 'error' event nobody listens to is
\* thrown by the emitter
OnError ==
  /\ exec.pc = "running"
  /\ ~exec.errored
  /\ LET e == [exec EXCEPT !.errored = TRUE, !.errorFirst = ~exec.closed]
     IN  exec' = IF "error" \in e.listeners
                 THEN Settle(e, "rejected", ErrorValue("process", 0))
                 ELSE [e EXCEPT !.uncaught = TRUE]
  /\ UNCHANGED << clock, runtimeVars, serverVars, queryVars >>

\* time passes while the child process exists; execute arms no timer
Advance(t) ==
  /\ exec.pc = "running"
  /\ t > clock
  /\ clock' = t
  /\ UNCHANGED << exec, runtimeVars, serverVars, queryVars >>



(***************************************************************************)
(* Error-Line Parser: parseErrors                                          *)
(***************************************************************************)
\* the characters \s matches, and String.prototype.trim strips
IsSpace(ch) == ch \in {" ", "\t", "\r", "\n"}

RECURSIVE LeadingSpaces(_)
\* line.match(/^\s*/)[0].length
LeadingSpaces(s) ==
  IF s # << >> /\ IsSpace(Head(s)) THEN 1 + LeadingSpaces(Tail(s)) ELSE 0

RECURSIVE TrailingSpaces(_)
TrailingSpaces(s) ==
  IF s # << >> /\ IsSpace(s[Len(s)])
  THEN 1 + TrailingSpaces(SubSeq(s, 1, Len(s) - 1))
  ELSE 0

\* no trimming
trim_None(s) == s

\* String.prototype.trim
trim(s) ==
  LET a == LeadingSpaces(s)
  IN  IF a = Len(s) THEN << >>
      ELSE SubSeq(s, a + 1, Len(s) - TrailingSpaces(s))

\* String.prototype.replace(ch, ""): the first occurrence only
replaceFirst(s, ch) ==
  LET i == indexOf(s, ch)
  IN  IF i = -1 THEN s ELSE SubSeq(s, 1, i) \o SubSeq(s, i + 2, Len(s))

Digits == << "0", "1", "2", "3", "4", "5", "6", "7", "8", "9" >>
IsDigit(ch) == \E i \in 1 .. Len(Digits) : Digits[i] = ch
DigitValue(ch) == (CHOOSE i \in 1 .. Len(Digits) : Digits[i] = ch) - 1

RECURSIVE DecimalValue(_)
DecimalValue(s) ==
  IF s = << >> THEN 0
  ELSE 10 * DecimalValue(SubSeq(s, 1, Len(s) - 1)) + DigitValue(s[Len(s)])

AllDigits(s) == s # << >> /\ \A i \in 1 .. Len(s) : IsDigit(s[i])

\* Number(v.trim()) on signed decimal integers: "" is 0, anything that is
\* not an optionally signed run of digits is NaN (finite = FALSE)
NumberOf(s) ==
  LET t == trim(s)
  IN  IF t = << >> THEN [finite |-> TRUE, n |-> 0]
      ELSE IF AllDigits(t) THEN [finite |-> TRUE, n |-> DecimalValue(t)]
      ELSE IF Head(t) = "-" /\ AllDigits(Tail(t))
           THEN [finite |-> TRUE, n |-> 0 - DecimalValue(Tail(t))]
      ELSE IF Head(t) = "+" /\ AllDigits(Tail(t))
           THEN [finite |-> TRUE, n |-> DecimalValue(Tail(t))]
      ELSE [finite |-> FALSE, n |-> 0]

UpperCase == << "A", "B", "C", "D", "E", "F", "G", "H", "I", "J", "K", "L", "M",
                "N", "O", "P", "Q", "R", "S", "T", "U", "V", "W", "X", "Y", "Z" >>
LowerCase == << "a", "b", "c", "d", "e", "f", "g", "h", "i", "j", "k", "l", "m",
                "n", "o", "p", "q", "r", "s", "t", "u", "v", "w", "x", "y", "z" >>

\* no case folding
toLowerCase_None(s) == s

\* String.prototype.toLowerCase
toLowerCase(s) ==
  [i \in 1 .. Len(s) |->
     IF \E k \in 1 .. Len(UpperCase) : UpperCase[k] = s[i]
     THEN LowerCase[CHOOSE k \in 1 .. Len(UpperCase) : UpperCase[k] = s[i]]
     ELSE s[i]]

RECURSIVE TokenEnd(_, _)
\* index of the last character of the token that starts at i
TokenEnd(s, i) ==
  IF i < Len(s) /\ ~IsSpace(s[i + 1]) THEN TokenEnd(s, i + 1) ELSE i

RECURSIVE TokensFrom(_, _)
TokensFrom(s, i) ==
  IF i > Len(s) THEN << >>
  ELSE IF IsSpace(s[i]) THEN TokensFrom(s, i + 1)
  ELSE << SubSeq(s, i, TokenEnd(s, i)) >> \o TokensFrom(s, TokenEnd(s, i) + 1)

\* middle.split(/\s+/).filter(Boolean)
Tokens(s) == TokensFrom(s, 1)

RECURSIVE join(_, _)
\* Array.prototype.join
join(parts, sep) ==
  IF parts = << >> THEN << >>
  ELSE IF Len(parts) = 1 THEN parts[1]
  ELSE parts[1] \o sep \o join(Tail(parts), sep)

SeverityError == 1
SeverityWarning == 2
SeverityInformation == 3

WordWarning == << "w", "a", "r", "n", "i", "n", "g" >>
WordError == << "e", "r", "r", "o", "r" >>

\* a line index that is the sentinel for every line number below 1
LineIndex_Sentinel(rawLine) ==
  IF rawLine.finite /\ rawLine.n >= 1 THEN rawLine.n - 1 ELSE -1

\* Number.isFinite(rawLine) ? Math.max(rawLine - 1, 0) : -1
LineIndex(rawLine) ==
  IF rawLine.finite
  THEN (IF rawLine.n - 1 > 0 THEN rawLine.n - 1 ELSE 0)
  ELSE -1

\* parseError(errorString), given lines = docText.split("\n"); nothing in
\* its try block throws, so the catch branch is never taken
\* a pop that takes only a last part that is the empty string
popBlank_EmptyOnly(messageParts) ==
  IF messageParts # << >> /\ messageParts[Len(messageParts)] = << >>
  THEN SubSeq(messageParts, 1, Len(messageParts) - 1)
  ELSE messageParts

\* if (messageParts.length > 0 && last.trim() === "") messageParts.pop()
popBlank(messageParts) ==
  IF messageParts # << >> /\ trim(messageParts[Len(messageParts)]) = << >>
  THEN SubSeq(messageParts, 1, Len(messageParts) - 1)
  ELSE messageParts

\* a line start that is 0 for a line of whitespace only
lineStart_BlankIsZero(line) ==
  IF LeadingSpaces(line) = Len(line) THEN 0 ELSE LeadingSpaces(line)

\* an element of lineStarts: line.match(/^\s*/)?.[0]?.length ?? 0
lineStart(line) == LeadingSpaces(line)

parseError(lines, errorString) ==
  LET parts == split(errorString, ":")
      positionStr == replaceFirst(replaceFirst(parts[1], "("), ")")
      rawLine == NumberOf(split(positionStr, ",")[1])
      line == LineIndex(rawLine)
      known == line >= 0 /\ line < Len(lines)
      colStart == IF known THEN lineStart(lines[line + 1]) ELSE 0
      colEnd == IF known THEN Len(lines[line + 1]) ELSE 0
      middle == IF Len(parts) >= 2 THEN trim(parts[2]) ELSE << >>
      middleTokens == Tokens(middle)
      first == IF middleTokens # << >> THEN toLowerCase(middleTokens[1]) ELSE << >>
      prefixed == first = WordWarning \/ first = WordError
      messageParts == SubSeq(parts, 3, Len(parts))
      kept == popBlank(messageParts)
  IN  [range |-> [start |-> [line |-> line, character |-> colStart],
                  end |-> [line |-> line, character |-> colEnd]],
       message |-> trim(join(kept, << ":" >>)),
       rule |-> IF prefixed THEN join(Tail(middleTokens), << " " >>) ELSE middle,
       severity |-> IF first = WordWarning THEN SeverityWarning ELSE SeverityError]

isValidError(error) == error.range.start.line >= 0

RECURSIVE MapParse(_, _)
MapParse(lines, errorStrings) ==
  IF errorStrings = << >> THEN << >>
  ELSE << parseError(lines, Head(errorStrings)) >> \o MapParse(lines, Tail(errorStrings))

parseErrors(docText, errorStrings) ==
  SelectSeq(MapParse(split(docText, "\n"), errorStrings), isValidError)

\* no parse call has been made
NoParse == [done |-> FALSE, docText |-> << >>, given |-> << >>, mapped |-> << >>,
            result |-> << >>, converted |-> FALSE, byPipeline |-> << >>,
            byConverter |-> << >>]

\* --- parseErrors applied to documents and batches of raw lines ---
MaxLines == 2

TextThree == << "a", "\n", "\t", "b", "\n", "c" >>
TextBlank == << " ", "\t", "\n", "a" >>
ParseTexts == {<< "a", "b" >>, << " ", "c", "\n", "d" >>, TextThree, TextBlank}

\* a decimal numeral for -9 .. 9
Numeral(n) == IF n < 0 THEN << "-", Digits[1 - n] >> ELSE << Digits[n + 1] >>

\* "(<line>,<col>): <rule>: <message>", with what the line says
PlainLine(n, col, rule, message) ==
  [text |-> << "(" >> \o Numeral(n) \o << "," >> \o Numeral(col) \o << ")", ":", " " >>
            \o rule \o << ":", " " >> \o message,
   grammar |-> "plain", converts |-> TRUE, n |-> n,
   severity |-> SeverityError, rule |-> rule, message |-> message]

\* "(<line>,<col>): <severity> <rule>: <message>"; the rule's tokens are
\* written gap apart
PrefixedLine(n, col, word, severity, tokens, gap, message) ==
  [text |-> << "(" >> \o Numeral(n) \o << "," >> \o Numeral(col) \o << ")", ":", " " >>
            \o word \o gap \o join(tokens, gap) \o << ":", " " >> \o message,
   grammar |-> "prefixed", converts |-> TRUE, n |-> n,
   severity |-> severity, rule |-> join(tokens, << " " >>), message |-> message]

\* a line without the grammar; converts says whether Number() of its
\* line-number segment is finite, n is that number
OtherLine(text, converts, n) ==
  [text |-> text, grammar |-> "none", converts |-> converts, n |-> n,
   severity |-> SeverityError, rule |-> << >>, message |-> << >>]

\* a line with the plain grammar whose line number is not a number
UnparsableLine ==
  [text |-> << "(", "x", ",", "1", ")", ":", " ", "r", ":", " ", "m" >>,
   grammar |-> "plain", converts |-> FALSE, n |-> 0,
   severity |-> SeverityError, rule |-> << "r" >>, message |-> << "m" >>]

\* a given line with more text after it; message is what the longer line says
SuffixedLine(line, suffix, message) ==
  [line EXCEPT !.text = @ \o suffix, !.grammar = "suffixed", !.message = message]

GivenLines ==
  { PlainLine(1, 1, << "r" >>, << "m" >>),
    SuffixedLine(PlainLine(1, 1, << "r" >>, << "m" >>), << ":" >>, << "m" >>),
    SuffixedLine(PlainLine(1, 1, << "r" >>, << "m" >>), << ":", ":" >>, << "m", ":" >>),
    SuffixedLine(PlainLine(1, 1, << "r" >>, << "m" >>), << ":", " " >>, << "m" >>),
    PlainLine(3, 5, << "a", " ", " ", "b" >>, << "a", ":", "b" >>),
    PlainLine(2, 1, << "e", "r", "r", "o", "r", "s" >>, << "m", " ", "n" >>),
    PrefixedLine(2, 1, << "w", "a", "r", "n", "i", "n", "g" >>, SeverityWarning,
                 << << "k" >> >>, << " " >>, << "n" >>),
    PrefixedLine(1, 1, << "W", "a", "r", "n", "I", "N", "G" >>, SeverityWarning,
                 << << "a" >>, << "b" >> >>, << " ", " " >>, << "m" >>),
    PrefixedLine(1, 1, << "E", "R", "R", "O", "R" >>, SeverityError,
                 << << "r" >> >>, << " " >>, << "m" >>),
    PlainLine(0, 1, << "r" >>, << "m" >>),
    PlainLine(-1, 1, << "r" >>, << "m" >>),
    UnparsableLine,
    OtherLine(<< "g", "a", "r", "b", "a", "g", "e" >>, FALSE, 0),
    OtherLine(<< "(" >>, TRUE, 0) }

\* the batches of at most n given lines
GivenBatches(n) == UNION {[1 .. k -> GivenLines] : k \in 0 .. n}

ParseInputs ==
  { [NoParse EXCEPT !.docText = t, !.given = g] :
      t \in ParseTexts, g \in GivenBatches(MaxLines) }

\* the raw lines of a batch
TextsOf(given) == [i \in 1 .. Len(given) |-> given[i].text]

\* parseErrors(docText, errorStrings) is called: errorStrings.map(parseError),
\* then .filter(isValidError)
Parse ==
  /\ ~parsed.done
  /\ parsed' = [parsed EXCEPT
                  !.done = TRUE,
                  !.mapped = MapParse(split(parsed.docText, "\n"), TextsOf(parsed.given)),
                  !.result = parseErrors(parsed.docText, TextsOf(parsed.given))]
  /\ UNCHANGED << serverVars, codeAction, registered, textEdit, execVars, runtimeVars >>

(***************************************************************************)
(* Platform Resolver: NodePlatformAdapter.getPlatform                      *)
(***************************************************************************)
Hosts ==
  { [osType |-> "Darwin", arch |-> "x64"],
    [osType |-> "Linux", arch |-> "x64"],
    [osType |-> "Windows_NT", arch |-> "ia32"],
    [osType |-> "Windows_NT", arch |-> "x64"],
    [osType |-> "Windows_NT", arch |-> "arm64"],
    [osType |-> "SunOS", arch |-> "x64"] }

\* a resolver that takes every Windows host for a 64-bit one
getPlatform_NoArch(h) ==
  IF h.osType = "Darwin" THEN "osx-x64"
  ELSE IF h.osType = "Linux" THEN "linux-x64"
  ELSE IF h.osType = "Windows_NT" THEN "win-x64"
  ELSE "unsupported"

\* "unsupported" stands for the thrown Error("Unsupported platform: ...")
getPlatform(h) ==
  IF h.osType = "Darwin" THEN "osx-x64"
  ELSE IF h.osType = "Linux" THEN "linux-x64"
  ELSE IF h.osType = "Windows_NT"
       THEN (IF h.arch = "ia32" THEN "win-x86" ELSE "win-x64")
  ELSE "unsupported"

(***************************************************************************)
(* Runtime Acquirer: TSQLLintRuntimeHelper                                 *)
(***************************************************************************)
NumRuntimeCalls == 2
RuntimeCalls == 1 .. NumRuntimeCalls

Unset == "undefined"
InstallDirectory == "applicationRoot/tsqllint"
HttpStatuses == {200, 204, 404}

RtInit ==
  [pc |-> "idle", err |-> "none", result |-> Unset,
   afterSet |-> FALSE, checked |-> FALSE, downloads |-> 0,
   status |-> 0, transport |-> FALSE, mkdirFailed |-> FALSE,
   pipe |-> "none", unlink |-> "none", unlinkAttempts |-> 0]

DiskInitial == {[installDir |-> d, archive |-> FALSE, platformDir |-> p] :
                  d, p \in BOOLEAN} \ {[installDir |-> FALSE, archive |-> FALSE, platformDir |-> TRUE]}

RuntimeIdle ==
  /\ host = [osType |-> "Linux", arch |-> "x64"]
  /\ rt = [r \in RuntimeCalls |-> RtInit]
  /\ tsqllintToolsPath = Unset
  /\ pathWrites = 0
  /\ disk = [installDir |-> TRUE, archive |-> FALSE, platformDir |-> TRUE]

\* the response handler's test of res.statusCode
StatusFails_Not2xx(status) == status < 200 \/ status > 299

StatusFails(status) == status # 200

\* TSQLLintRuntime(), up to its first suspension: the memoized path, the
\* platform, the call of exists()
TSQLLintRuntime(r) ==
  /\ rt[r].pc = "idle"
  /\ rt' = [rt EXCEPT ![r] =
       IF tsqllintToolsPath # Unset
       THEN [@ EXCEPT !.pc = "resolved", !.result = tsqllintToolsPath, !.afterSet = TRUE]
       ELSE IF getPlatform(host) = "unsupported"
       THEN [@ EXCEPT !.pc = "rejected", !.err = "unsupported"]
       ELSE [@ EXCEPT !.pc = "exists"]]
  /\ UNCHANGED << host, tsqllintToolsPath, pathWrites, disk, execVars, serverVars, queryVars >>

\* an exists callback that downloads whatever exists() answered
ExistsResult_AlwaysDownload(r) ==
  /\ rt[r].pc = "exists"
  /\ rt' = [rt EXCEPT ![r] = [@ EXCEPT !.checked = TRUE, !.pc = "mkdir"]]
  /\ UNCHANGED << host, tsqllintToolsPath, pathWrites, disk, execVars, serverVars, queryVars >>

\* exists(...).then(exists => ...): memoize, or DownloadRuntime up to its
\* call of createDirectory
ExistsResult(r) ==
  /\ rt[r].pc = "exists"
  /\ IF disk.platformDir
     THEN /\ tsqllintToolsPath' = InstallDirectory
          /\ pathWrites' = pathWrites + 1
          /\ rt' = [rt EXCEPT ![r] = [@ EXCEPT !.checked = TRUE, !.pc = "resolved",
                                               !.result = InstallDirectory]]
     ELSE /\ rt' = [rt EXCEPT ![r] = [@ EXCEPT !.checked = TRUE, !.pc = "mkdir"]]
          /\ UNCHANGED << tsqllintToolsPath, pathWrites >>
  /\ UNCHANGED << host, disk, execVars, serverVars, queryVars >>

\* createDirectory(...).then(() => { createWriteStream; https.get }) and
\* its .catch(reject)
CreateDirectoryDone(r, ok) ==
  /\ rt[r].pc = "mkdir"
  /\ IF ok
     THEN /\ disk' = [disk EXCEPT !.installDir = TRUE, !.archive = TRUE]
          /\ rt' = [rt EXCEPT ![r] = [@ EXCEPT !.pc = "request", !.downloads = @ + 1]]
     ELSE /\ rt' = [rt EXCEPT ![r] = [@ EXCEPT !.pc = "rejected", !.err = "mkdir",
                                               !.mkdirFailed = TRUE]]
          /\ UNCHANGED disk
  /\ UNCHANGED << host, tsqllintToolsPath, pathWrites, execVars, serverVars, queryVars >>

\* the two 'response' listeners: the https.get callback pipes the body to
\* the file, the second one rejects on a bad status
OnResponse(r, status) ==
  /\ rt[r].pc = "request"
  /\ rt' = [rt EXCEPT ![r] =
       IF StatusFails(status)
       THEN [@ EXCEPT !.status = status, !.pipe = "open", !.pc = "rejected",
                      !.err = "status", !.unlink = "pending", !.unlinkAttempts = @ + 1]
       ELSE [@ EXCEPT !.status = status, !.pipe = "open", !.pc = "piping"]]
  /\ UNCHANGED << host, tsqllintToolsPath, pathWrites, disk, execVars, serverVars, queryVars >>

\* .on("error", err => { deleteFile(...).catch(() => {}); reject(err) })
OnRequestError(r) ==
  /\ rt[r].pc = "request"
  /\ rt' = [rt EXCEPT ![r] = [@ EXCEPT !.transport = TRUE, !.pc = "rejected",
                                       !.err = "transport", !.unlink = "pending",
                                       !.unlinkAttempts = @ + 1]]
  /\ UNCHANGED << host, tsqllintToolsPath, pathWrites, disk, execVars, serverVars, queryVars >>

\* file.on("finish"): resolve(downloadPath), which starts UnzipRuntime
\* unless the download promise was rejected before
OnFinish(r) ==
  /\ rt[r].pipe = "open"
  /\ rt' = [rt EXCEPT ![r] = [@ EXCEPT !.pipe = "finished",
                                       !.pc = IF @ = "piping" THEN "unzip" ELSE @]]
  /\ UNCHANGED << host, tsqllintToolsPath, pathWrites, disk, execVars, serverVars, queryVars >>

\* the deleteFile started by a failed download completes; its failure is
\* swallowed by .catch(() => {})
UnlinkDone(r, ok) ==
  /\ rt[r].unlink = "pending"
  /\ rt' = [rt EXCEPT ![r] = [@ EXCEPT !.unlink = IF ok THEN "ok" ELSE "failed"]]
  /\ disk' = IF ok THEN [disk EXCEPT !.archive = FALSE] ELSE disk
  /\ UNCHANGED << host, tsqllintToolsPath, pathWrites, execVars, serverVars, queryVars >>

\* UnzipRuntime: decompress is still running and has created the platform
\* directory with the first of the archive's files
UnzipWrites(r) ==
  /\ rt[r].pc = "unzip"
  /\ disk.archive
  /\ ~disk.platformDir
  /\ disk' = [disk EXCEPT !.platformDir = TRUE]
  /\ UNCHANGED << rt, host, tsqllintToolsPath, pathWrites, execVars, serverVars, queryVars >>

\* UnzipRuntime: decompress(...).then(...)
UnzipDone(r) ==
  /\ rt[r].pc = "unzip"
  /\ disk.archive
  /\ disk' = [disk EXCEPT !.platformDir = TRUE]
  /\ tsqllintToolsPath' = InstallDirectory
  /\ pathWrites' = pathWrites + 1
  /\ rt' = [rt EXCEPT ![r] = [@ EXCEPT !.pc = "resolved", !.result = InstallDirectory]]
  /\ UNCHANGED << host, execVars, serverVars, queryVars >>

\* UnzipRuntime: decompress(...).catch(reject); decompress may have written
\* part of the archive's content before it failed
UnzipFail(r, partial) ==
  /\ rt[r].pc = "unzip"
  /\ disk' = [disk EXCEPT !.platformDir = @ \/ partial]
  /\ rt' = [rt EXCEPT ![r] = [@ EXCEPT !.pc = "rejected", !.err = "extract"]]
  /\ UNCHANGED << host, tsqllintToolsPath, pathWrites, execVars, serverVars, queryVars >>

(***************************************************************************)
(* Command Registry: commands.ts (registerFileErrors, getCommands)         *)
(***************************************************************************)
\* no file has been registered yet
EmptyRegistry == [u \in {} |-> << >>]

DisableOpen == << "/", "*", " ", "t", "s", "q", "l", "l", "i", "n", "t", "-",
                  "d", "i", "s", "a", "b", "l", "e", " " >>
EnableOpen == << "/", "*", " ", "t", "s", "q", "l", "l", "i", "n", "t", "-",
                 "e", "n", "a", "b", "l", "e", " " >>
CommentClose == << " ", "*", "/" >>
NewLine == << "\n" >>

DisableComment(rule) == DisableOpen \o rule \o CommentClose
EnableComment(rule) == EnableOpen \o rule \o CommentClose

\* the source line of a finding; a finding beyond the last line of the text
\* has none, and its edit is built around the empty line
SourceLine(lines, n) == IF n + 1 \in DOMAIN lines THEN lines[n + 1] ELSE << >>

\* the leading whitespace of a line
Indentation(line) == SubSeq(line, 1, LeadingSpaces(line))

\* an edit whose comments start at column 0
getDisableEdit_NoIndent(lines, error) ==
  LET line == SourceLine(lines, error.range.start.line)
  IN  << [range |-> [start |-> [line |-> error.range.start.line, character |-> 0],
                     end |-> error.range.end],
          newText |-> DisableComment(error.rule) \o NewLine
                      \o line \o NewLine
                      \o EnableComment(error.rule) \o NewLine] >>

\* the edit of "disable for this line": the source line between a disable
\* and an enable comment, all three with the line's indentation
getDisableEdit(lines, error) ==
  LET line == SourceLine(lines, error.range.start.line)
      space == Indentation(line)
  IN  << [range |-> [start |-> [line |-> error.range.start.line, character |-> 0],
                     end |-> error.range.end],
          newText |-> space \o DisableComment(error.rule) \o NewLine
                      \o line \o NewLine
                      \o space \o EnableComment(error.rule) \o NewLine] >>

\* one stored entry per finding
toDiagnosticCommands(lines, error) ==
  [error |-> error, disableLine |-> getDisableEdit(lines, error)]

\* a registration that adds its entries to those the file already has
registerFileErrors_Merge(registry, file, errors) ==
  LET lines == split(file.text, "\n")
      stored == [i \in 1 .. Len(errors) |-> toDiagnosticCommands(lines, errors[i])]
  IN  [u \in DOMAIN registry \cup {file.uri} |->
         IF u = file.uri
         THEN (IF u \in DOMAIN registry THEN registry[u] ELSE << >>) \o stored
         ELSE registry[u]]

\* registerFileErrors(file, errors): the entry of file.uri is replaced by the
\* entries of this finding set
registerFileErrors(registry, file, errors) ==
  LET lines == split(file.text, "\n")
      stored == [i \in 1 .. Len(errors) |-> toDiagnosticCommands(lines, errors[i])]
  IN  [u \in DOMAIN registry \cup {file.uri} |->
         IF u = file.uri THEN stored ELSE registry[u]]

\* positions are compared by line, then by character
comparePos(a, b) ==
  IF a.line # b.line THEN a.line - b.line ELSE a.character - b.character

\* a selection that leaves out entries which only touch the range
InRange_Strict(entry, range) ==
  /\ comparePos(entry.error.range.end, range.start) > 0
  /\ comparePos(entry.error.range.start, range.end) < 0

\* the stored entries a query range selects
InRange(entry, range) ==
  /\ ~(comparePos(entry.error.range.end, range.start) < 0)
  /\ ~(comparePos(entry.error.range.start, range.end) > 0)

CommandId == "_tsql-lint.change"

toDisableCommand(uri, entry) ==
  [title |-> << "Disable: " >> \o entry.error.rule \o << " for this line" >>,
   command |-> CommandId,
   arguments |-> << uri, entry.error.range.start.line, entry.disableLine >>]

\* a file action anchored at the finding's own line
toDisableForFileCommand_AtFinding(uri, entry) ==
  [title |-> << "Disable: " >> \o entry.error.rule \o << " for this file" >>,
   command |-> CommandId,
   arguments |-> << uri, 0,
                    << [range |-> [start |-> [line |-> entry.error.range.start.line,
                                              character |-> 0],
                                   end |-> [line |-> entry.error.range.start.line,
                                            character |-> 0]],
                        newText |-> DisableComment(entry.error.rule) \o NewLine] >> >>]

toDisableForFileCommand(uri, entry) ==
  [title |-> << "Disable: " >> \o entry.error.rule \o << " for this file" >>,
   command |-> CommandId,
   arguments |-> << uri, 0,
                    << [range |-> [start |-> [line |-> 0, character |-> 0],
                                   end |-> [line |-> 0, character |-> 0]],
                        newText |-> DisableComment(entry.error.rule) \o NewLine] >> >>]

\* the line actions of all selected entries, then their file actions
CommandsOf_Grouped(uri, entries, range) ==
  LET selected == SelectSeq(entries, LAMBDA e : InRange(e, range))
  IN  [j \in 1 .. Len(selected) |-> toDisableCommand(uri, selected[j])]
      \o [j \in 1 .. Len(selected) |-> toDisableForFileCommand(uri, selected[j])]

RECURSIVE CommandsOf(_, _, _)
CommandsOf(uri, entries, range) ==
  IF entries = << >> THEN << >>
  ELSE (IF InRange(Head(entries), range)
        THEN << toDisableCommand(uri, Head(entries)),
                toDisableForFileCommand(uri, Head(entries)) >>
        ELSE << >>) \o CommandsOf(uri, Tail(entries), range)

RECURSIVE AllCommands(_, _, _)
AllCommands(registry, files, range) ==
  IF files = {} THEN << >>
  ELSE LET u == CHOOSE x \in files : TRUE
       IN  CommandsOf(u, registry[u], range) \o AllCommands(registry, files \ {u}, range)

\* an answer that does not look at the file of the request
getCommands_AnyFile(registry, params) ==
  AllCommands(registry, DOMAIN registry, params.range)

\* getCommands(params): the answer to a code-action request
getCommands(registry, params) ==
  IF params.uri \notin DOMAIN registry THEN << >>
  ELSE CommandsOf(params.uri, registry[params.uri], params.range)

\* --- the registry driven by registrations and code-action requests ---
TextOne == << "a", "b" >>
TextTwo == << " ", "c", "\n", "d" >>
Texts == {TextOne, TextTwo}

RegistryUris == {"file:///a.sql"}

\* code-action requests also come for a file no pass has registered
QueryUris == RegistryUris \cup {"file:///nonexistent.sql"}

MaxFindings == 2

\* a warning line as the binary prints it
ChunkWarning == << "f", "(", "2", ",", "1", ")", ":", " ", "w", "a", "r", "n", "i", "n", "g",
                   " ", "k", ":", " ", "n", "\r", "\n" >>

\* raw lines as execute returns them
RawFinding == ResultLines(ChunkFinding)[1]
RawWarning == ResultLines(ChunkWarning)[1]
RawLines == {RawFinding, RawWarning}

\* the batches of at most n raw lines
Batches(n) == UNION {[1 .. k -> RawLines] : k \in 0 .. n}

Positions ==
  { [line |-> 0, character |-> 0], [line |-> 0, character |-> 1],
    [line |-> 0, character |-> 2], [line |-> 1, character |-> 0],
    [line |-> 1, character |-> 1] }

QueryRanges ==
  { r \in [start : Positions, end : Positions] : comparePos(r.start, r.end) <= 0 }

\* a document text with the findings parse returns for a batch of raw lines
Registrations ==
  { [text |-> t, errors |-> parseErrors(t, b)] : t \in Texts, b \in Batches(MaxFindings) }

NoCodeAction ==
  [asked |-> FALSE, uri |-> "none",
   range |-> [start |-> [line |-> 0, character |-> 0],
              end |-> [line |-> 0, character |-> 0]],
   commands |-> << >>]

RulesOf(errors) == {errors[i].rule : i \in 1 .. Len(errors)}

\* the record of a registerFileErrors call: the findings it was given, and
\* the rules of the set it superseded
Registered(uri, errors) ==
  [u \in DOMAIN registered \cup {uri} |->
     IF u = uri
     THEN [errors |-> errors,
           superseded |-> IF uri \in DOMAIN registered
                          THEN RulesOf(registered[uri].errors) ELSE {}]
     ELSE registered[u]]

\* a validation pass registers the findings parsed for a document
RegisterFileErrors(uri, text, errors) ==
  /\ fileErrors' = registerFileErrors(fileErrors, [uri |-> uri, text |-> text], errors)
  /\ registered' = Registered(uri, errors)
  /\ documents' = [documents EXCEPT ![uri].text = text]
  /\ UNCHANGED << globalSettings, val, scratch, published, lastPass, codeAction, parsed,
                  textEdit, execVars, runtimeVars >>

\* connection.onCodeAction(getCommands)
OnCodeAction(uri, range) ==
  /\ codeAction' = [asked |-> TRUE, uri |-> uri, range |-> range,
                    commands |-> getCommands(fileErrors, [uri |-> uri, range |-> range])]
  /\ UNCHANGED << serverVars, parsed, registered, textEdit, execVars, runtimeVars >>

(***************************************************************************)
(* Validation Pipeline: server.ts (ValidateBuffer, LintBuffer, getTextEdit *)
(* and the handlers)                                                       *)
(***************************************************************************)
NumCalls == 2
Calls == 1 .. NumCalls

Uris == {"file:///a.sql"}


\* what the binary may print for a scratch file
LintOutputs == {<< >>, ChunkFinding \o ChunkWarning}

\* the binary run with -x may rewrite the scratch file in place
Fixed(text) == text \o << ";" >>

Range(seq) == {seq[i] : i \in 1 .. Len(seq)}

Null == << >>
Some(x) == << x >>

ValInit ==
  [pc |-> "idle", kind |-> "none", uri |-> "none", shouldFix |-> FALSE,
   err |-> "none", publications |-> 0, updated |-> Null, applied |-> << >>,
   writtenVersion |-> 0]

toDiagnostic(lintError) ==
  [severity |-> lintError.severity,
   range |-> lintError.range,
   message |-> lintError.message,
   source |-> << "T", "S", "Q", "L", "L", "i", "n", "t", ":", " " >> \o lintError.rule]

\* errors.map(toDiagnostic)
toDiagnostics(errors) == [i \in 1 .. Len(errors) |-> toDiagnostic(errors[i])]

\* DiagnosticConverter.toDiagnostics (validation/DiagnosticConverter.ts)
DiagnosticConverter_toDiagnostics(errors) ==
  [i \in 1 .. Len(errors) |->
     [severity |-> SeverityInformation,
      range |-> errors[i].range,
      message |-> errors[i].rule \o << ":", " " >> \o errors[i].message,
      source |-> << "t", "s", "q", "l", "l", "i", "n", "t" >>]]

\* the findings returned by parseErrors are converted, by the pipeline's
\* errors.map(toDiagnostic) and by DiagnosticConverter.toDiagnostics
Convert ==
  /\ parsed.done
  /\ ~parsed.converted
  /\ parsed' = [parsed EXCEPT !.converted = TRUE,
                               !.byPipeline = toDiagnostics(parsed.result),
                               !.byConverter = DiagnosticConverter_toDiagnostics(parsed.result)]
  /\ UNCHANGED << serverVars, codeAction, registered, textEdit, execVars, runtimeVars >>

\* calls are numbered in the order in which their handlers are entered
NextCall(c) == val[c].pc = "idle" /\ \A d \in Calls : d < c => val[d].pc # "idle"

\* ValidateBuffer, up to its first await: TempFilePath, then writeFile of
\* textDocument.getText() is started; writtenVersion notes the version of
\* the text being written
ValidateBuffer(c, kind, uri, shouldFix, version) ==
  [val[c] EXCEPT !.pc = "writing", !.kind = kind, !.uri = uri, !.shouldFix = shouldFix,
                 !.writtenVersion = version]

\* connection.onDidChangeConfiguration
OnDidChangeConfiguration(autoFix) ==
  /\ globalSettings' = [autoFixOnSave |-> autoFix]
  /\ UNCHANGED << documents, val, scratch, fileErrors, published, lastPass,
                  execVars, runtimeVars, queryVars >>

\* the client edits a document; documentManager.onDidChangeContent then
\* runs ValidateBuffer(document, null)
OnDidChangeContent(c, uri, text) ==
  /\ NextCall(c)
  /\ documents' = [documents EXCEPT ![uri] = [text |-> text, version |-> @.version + 1]]
  /\ val' = [val EXCEPT ![c] = ValidateBuffer(c, "change", uri, FALSE,
                                                 documents[uri].version + 1)]
  /\ scratch' = [scratch EXCEPT ![c] = [exists |-> FALSE, content |-> text]]
  /\ UNCHANGED << globalSettings, fileErrors, published, lastPass, execVars, runtimeVars, queryVars >>

\* connection.onNotification("fix"): getTextEdit(textDocument, true)
OnFixNotification(c, uri) ==
  /\ NextCall(c)
  /\ val' = [val EXCEPT ![c] = ValidateBuffer(c, "fix", uri, TRUE,
                                                 documents[uri].version)]
  /\ scratch' = [scratch EXCEPT ![c] = [exists |-> FALSE, content |-> documents[uri].text]]
  /\ UNCHANGED << documents, globalSettings, fileErrors, published, lastPass,
                  execVars, runtimeVars, queryVars >>

\* a will-save handler that fixes whatever the setting says
OnWillSaveWaitUntil_Forced(c, uri) ==
  /\ NextCall(c)
  /\ val' = [val EXCEPT ![c] = ValidateBuffer(c, "willSave", uri, TRUE,
                                                      documents[uri].version)]
  /\ scratch' = [scratch EXCEPT ![c] = [exists |-> FALSE, content |-> documents[uri].text]]
  /\ UNCHANGED << documents, globalSettings, fileErrors, published, lastPass,
                  execVars, runtimeVars, queryVars >>

\* documentManager.onWillSaveWaitUntil: getTextEdit(document), force = false
OnWillSaveWaitUntil(c, uri) ==
  /\ NextCall(c)
  /\ IF ~globalSettings.autoFixOnSave
     THEN /\ val' = [val EXCEPT ![c] = [@ EXCEPT !.pc = "returned", !.kind = "willSave",
                                                 !.uri = uri]]
          /\ UNCHANGED scratch
     ELSE /\ val' = [val EXCEPT ![c] = ValidateBuffer(c, "willSave", uri, TRUE,
                                                      documents[uri].version)]
          /\ scratch' = [scratch EXCEPT ![c] = [exists |-> FALSE,
                                                content |-> documents[uri].text]]
  /\ UNCHANGED << documents, globalSettings, fileErrors, published, lastPass,
                  execVars, runtimeVars, queryVars >>

\* LintBuffer's argument list for execute
LintArgs(shouldFix) ==
  IF shouldFix THEN << "tempFilePath", "-x" >> ELSE << "tempFilePath" >>

\* a writeFile that is not awaited: LintBuffer is called at once
WriteFileDone_NotAwaited(c) ==
  /\ val[c].pc = "writing"
  /\ val' = [val EXCEPT ![c].pc = "linting"]
  /\ UNCHANGED << scratch, documents, globalSettings, fileErrors, published, lastPass,
                  execVars, runtimeVars, queryVars >>

\* await writeFile(...) completes; LintBuffer(tempFilePath, shouldFix) is
\* called
WriteFileDone(c) ==
  /\ val[c].pc = "writing"
  /\ scratch' = [scratch EXCEPT ![c].exists = TRUE]
  /\ val' = [val EXCEPT ![c].pc = "linting"]
  /\ UNCHANGED << documents, globalSettings, fileErrors, published, lastPass,
                  execVars, runtimeVars, queryVars >>

\* whether the binary rewrote the scratch file: only a run with -x may
RewriteChoices(c) == IF val[c].shouldFix THEN BOOLEAN ELSE {FALSE}

\* what the binary did to the scratch file by the time its run ended: only
\* a run with -x may rewrite it
Rewritten(c, rewrote) ==
  IF rewrote /\ "-x" \in Range(LintArgs(val[c].shouldFix))
  THEN [scratch EXCEPT ![c].content = Fixed(@)]
  ELSE scratch

\* a pass that sends its diagnostics for every open document
LintResolved_PublishesToAll(c, stdout, rewrote) ==
  /\ val[c].pc = "linting"
  /\ LET uri == val[c].uri
         text == documents[uri].text
         errors == parseErrors(text, ResultLines(stdout))
     IN  /\ fileErrors' = registerFileErrors(fileErrors, [uri |-> uri, text |-> text], errors)
         /\ published' = [u \in DOMAIN published |-> toDiagnostics(errors)]
         /\ lastPass' = [lastPass EXCEPT ![uri] = "ok"]
         /\ val' = [val EXCEPT ![c] = [@ EXCEPT
                      !.pc = IF val[c].shouldFix THEN "reading" ELSE "deleting",
                      !.publications = @ + 1]]
  /\ scratch' = Rewritten(c, rewrote)
  /\ UNCHANGED << documents, globalSettings, execVars, runtimeVars, queryVars >>

\* LintBuffer resolved with execute's result lines: parse against
\* textDocument.getText(), register, publish; then readFile or deleteFile
\* is awaited
LintResolved(c, stdout, rewrote) ==
  /\ val[c].pc = "linting"
  /\ LET uri == val[c].uri
         text == documents[uri].text
         errors == parseErrors(text, ResultLines(stdout))
     IN  /\ fileErrors' = registerFileErrors(fileErrors, [uri |-> uri, text |-> text], errors)
         /\ published' = [published EXCEPT ![uri] = toDiagnostics(errors)]
         /\ lastPass' = [lastPass EXCEPT ![uri] = "ok"]
         /\ val' = [val EXCEPT ![c] = [@ EXCEPT
                      !.pc = IF val[c].shouldFix THEN "reading" ELSE "deleting",
                      !.publications = @ + 1]]
  /\ scratch' = Rewritten(c, rewrote)
  /\ UNCHANGED << documents, globalSettings, execVars, runtimeVars, queryVars >>

\* a catch block that rethrows without touching the registry
LintRejected_KeepsEntry(c, err, rewrote) ==
  /\ val[c].pc = "linting"
  /\ lastPass' = [lastPass EXCEPT ![val[c].uri] = "failed"]
  /\ val' = [val EXCEPT ![c] = [@ EXCEPT !.pc = "failed", !.err = err]]
  /\ scratch' = Rewritten(c, rewrote)
  /\ UNCHANGED << fileErrors, documents, globalSettings, published, execVars, runtimeVars, queryVars >>

\* LintBuffer rejected (TSQLLintRuntime or execute failed): the catch block
\* registers the empty set and rethrows; deleteFile is not reached
LintRejected(c, err, rewrote) ==
  /\ val[c].pc = "linting"
  /\ fileErrors' = registerFileErrors(fileErrors,
                     [uri |-> val[c].uri, text |-> documents[val[c].uri].text], << >>)
  /\ lastPass' = [lastPass EXCEPT ![val[c].uri] = "failed"]
  /\ val' = [val EXCEPT ![c] = [@ EXCEPT !.pc = "failed", !.err = err]]
  /\ scratch' = Rewritten(c, rewrote)
  /\ UNCHANGED << documents, globalSettings, published, execVars, runtimeVars, queryVars >>

\* the binary run by LintBuffer closes with an exit code after writing stdout:
\* execute resolves or rejects as its close handler decides
LintClosed(c, stdout, code, rewrote) ==
  /\ val[c].pc = "linting"
  /\ IF CloseOutcome(stdout, code).error = "none"
     THEN LintResolved(c, stdout, rewrote)
     ELSE LintRejected(c, "executor", rewrote)

\* a read that takes the document's text instead of the scratch file's
ReadFileDone_ReadsDocument(c) ==
  /\ val[c].pc = "reading"
  /\ val' = [val EXCEPT ![c] = [@ EXCEPT !.pc = "deleting",
                                         !.updated = Some(documents[val[c].uri].text)]]
  /\ UNCHANGED << documents, globalSettings, scratch, fileErrors, published, lastPass,
                  execVars, runtimeVars, queryVars >>

\* updated = await readFile(tempFilePath)
ReadFileDone(c) ==
  /\ val[c].pc = "reading"
  /\ val' = [val EXCEPT ![c] = [@ EXCEPT !.pc = "deleting",
                                         !.updated = Some(scratch[c].content)]]
  /\ UNCHANGED << documents, globalSettings, scratch, fileErrors, published, lastPass,
                  execVars, runtimeVars, queryVars >>

\* what getTextEdit returns after ValidateBuffer: one edit
getTextEdit(test) ==
  << [range |-> [start |-> [line |-> 0, character |-> 0],
                 end |-> [line |-> 10000, character |-> 0]],
      newText |-> test] >>

\* a fix handler that catches the failure and sends the edit all the same
ReadFileFailed_EditSent(c) ==
  /\ val[c].pc = "reading"
  /\ val' = [val EXCEPT ![c] = [@ EXCEPT
               !.pc = "failed", !.err = "read",
               !.applied = IF val[c].kind = "fix"
                           THEN << [uri |-> val[c].uri,
                                    version |-> documents[val[c].uri].version,
                                    edits |-> getTextEdit(val[c].updated)] >>
                           ELSE << >>]]
  /\ UNCHANGED << documents, globalSettings, scratch, fileErrors, published, lastPass,
                  execVars, runtimeVars, queryVars >>

\* readFile rejects: ValidateBuffer throws at line 368
ReadFileFailed(c) ==
  /\ val[c].pc = "reading"
  /\ val' = [val EXCEPT ![c] = [@ EXCEPT !.pc = "failed", !.err = "read"]]
  /\ UNCHANGED << documents, globalSettings, scratch, fileErrors, published, lastPass,
                  execVars, runtimeVars, queryVars >>

\* no getTextEdit call has been made
NoTextEdit ==
  [done |-> FALSE, applied |-> FALSE, document |-> << << >> >>, test |-> << >>,
   edits |-> << >>, after |-> << >>]

MaxDocumentLines == 10002

\* a document of n lines, given as its lines: empty lines, then the line last
Document(n, last) == [i \in 1 .. n |-> IF i = n THEN last ELSE << >>]

\* the documents a fix is asked for: short ones, and ones of about as many
\* lines as the end line of the edit
EditDocuments ==
  { Document(n, last) :
      n \in {1, 2, MaxDocumentLines - 2, MaxDocumentLines - 1, MaxDocumentLines},
      last \in {<< >>, << "x" >>} }

\* what ValidateBuffer(d, true) returned to getTextEdit
FixedContents == { << >>, << "a" >>, << "a", ";" >>, << "a", "\n", "b", ";" >> }

EditInputs ==
  { [NoTextEdit EXCEPT !.document = d, !.test = t] :
      d \in EditDocuments, t \in FixedContents }

\* getTextEdit(d, true) after its await: the edits it returns
GetTextEdit ==
  /\ ~textEdit.done
  /\ textEdit' = [textEdit EXCEPT !.done = TRUE, !.edits = getTextEdit(textEdit.test)]
  /\ UNCHANGED << serverVars, codeAction, parsed, registered, execVars, runtimeVars >>

\* a position of the protocol in a document: one beyond the end of its line
\* or of the document is taken back to that end
PositionIn(document, position) ==
  IF position.line >= Len(document)
  THEN [line |-> Len(document) - 1, character |-> Len(document[Len(document)])]
  ELSE [line |-> position.line,
        character |-> Clamp(position.character, 0, Len(document[position.line + 1]))]

\* the client replaces the range of a text edit by its new text
applyEdit(document, edit) ==
  LET from == PositionIn(document, edit.range.start)
      to == PositionIn(document, edit.range.end)
      before == SubSeq(document[from.line + 1], 1, from.character)
      behind == SubSeq(document[to.line + 1], to.character + 1, Len(document[to.line + 1]))
      new == split(edit.newText, "\n")
      middle == IF Len(new) = 1
                THEN << before \o new[1] \o behind >>
                ELSE << before \o new[1] >> \o SubSeq(new, 2, Len(new) - 1)
                       \o << new[Len(new)] \o behind >>
  IN  SubSeq(document, 1, from.line) \o middle \o SubSeq(document, to.line + 2, Len(document))

\* connection.workspace.applyEdit(workspaceEdit), or the editor applying the
\* will-save edits: the client applies the one edit to its document
ApplyEdit ==
  /\ textEdit.done
  /\ ~textEdit.applied
  /\ Len(textEdit.edits) = 1
  /\ textEdit' = [textEdit EXCEPT !.applied = TRUE,
                                   !.after = applyEdit(textEdit.document, textEdit.edits[1])]
  /\ UNCHANGED << serverVars, codeAction, parsed, registered, execVars, runtimeVars >>

\* the edits a finished will-save or fix call handed back
Edits(c) ==
  IF val[c].pc = "returned" /\ val[c].shouldFix THEN getTextEdit(val[c].updated) ELSE << >>

\* await deleteFile(...) completes and ValidateBuffer returns updated; the
\* callers continue: getTextEdit builds its edit, the fix handler sends the
\* workspace edit with the document's version
DeleteFileDone(c) ==
  /\ val[c].pc = "deleting"
  /\ scratch' = [scratch EXCEPT ![c] = [exists |-> FALSE, content |-> << >>]]
  /\ LET v == val[c]
     IN  val' = [val EXCEPT ![c] =
           IF v.kind = "fix"
           THEN [v EXCEPT !.pc = "returned",
                          !.applied = << [uri |-> v.uri,
                                          version |-> documents[v.uri].version,
                                          edits |-> getTextEdit(v.updated)] >>]
           ELSE [v EXCEPT !.pc = "returned"]]
  /\ UNCHANGED << documents, globalSettings, fileErrors, published, lastPass,
                  execVars, runtimeVars, queryVars >>

(***************************************************************************)
(* Specifications                                                          *)
(***************************************************************************)
ExecIdle ==
  /\ exec = ExecInit
  /\ clock = 0

QueryIdle ==
  /\ codeAction = NoCodeAction
  /\ parsed = NoParse
  /\ registered = EmptyRegistry
  /\ textEdit = NoTextEdit

ServerIdle ==
  /\ documents = [u \in Uris |-> [text |-> TextOne, version |-> 1]]
  /\ globalSettings = [autoFixOnSave |-> FALSE]
  /\ val = [c \in Calls |-> ValInit]
  /\ scratch = [c \in Calls |-> [exists |-> FALSE, content |-> << >>]]
  /\ fileErrors = EmptyRegistry
  /\ published = [u \in Uris |-> << >>]
  /\ lastPass = [u \in Uris |-> "none"]

InitRuntime ==
  /\ host \in Hosts
  /\ rt = [r \in RuntimeCalls |-> RtInit]
  /\ tsqllintToolsPath = Unset
  /\ pathWrites = 0
  /\ disk \in DiskInitial
  /\ ExecIdle
  /\ ServerIdle
  /\ QueryIdle

NextRuntime ==
  \/ \E r \in RuntimeCalls : TSQLLintRuntime(r)
  \/ \E r \in RuntimeCalls : ExistsResult(r)
  \/ \E r \in RuntimeCalls, ok \in BOOLEAN : CreateDirectoryDone(r, ok)
  \/ \E r \in RuntimeCalls, status \in HttpStatuses : OnResponse(r, status)
  \/ \E r \in RuntimeCalls : OnRequestError(r)
  \/ \E r \in RuntimeCalls : OnFinish(r)
  \/ \E r \in RuntimeCalls, ok \in BOOLEAN : UnlinkDone(r, ok)
  \/ \E r \in RuntimeCalls : UnzipWrites(r)
  \/ \E r \in RuntimeCalls : UnzipDone(r)
  \/ \E r \in RuntimeCalls, partial \in BOOLEAN : UnzipFail(r, partial)

SpecRuntime == InitRuntime /\ [][NextRuntime]_vars

InitExec ==
  /\ exec = ExecInit
  /\ clock = 0
  /\ RuntimeIdle
  /\ ServerIdle
  /\ QueryIdle

NextExec ==
  \/ \E t \in TimeoutValues, b \in BOOLEAN : Execute(t, b)
  \/ \E ch \in StdoutChunks : OnStdoutData(ch)
  \/ \E code \in ExitCodes : OnClose(code)
  \/ OnError
  \/ \E t \in TimeoutValues : Advance(t)

SpecExec == InitExec /\ [][NextExec]_vars

InitRegistry ==
  /\ documents = [u \in RegistryUris |-> [text |-> TextOne, version |-> 1]]
  /\ globalSettings = [autoFixOnSave |-> FALSE]
  /\ val = [c \in Calls |-> ValInit]
  /\ scratch = [c \in Calls |-> [exists |-> FALSE, content |-> << >>]]
  /\ fileErrors = EmptyRegistry
  /\ published = [u \in RegistryUris |-> << >>]
  /\ lastPass = [u \in RegistryUris |-> "none"]
  /\ QueryIdle
  /\ ExecIdle
  /\ RuntimeIdle

NextRegistry ==
  \/ \E u \in RegistryUris, f \in Registrations : RegisterFileErrors(u, f.text, f.errors)
  \/ \E u \in QueryUris, r \in QueryRanges : OnCodeAction(u, r)

SpecRegistry == InitRegistry /\ [][NextRegistry]_vars

InitParse ==
  /\ parsed \in ParseInputs
  /\ codeAction = NoCodeAction
  /\ registered = EmptyRegistry
  /\ textEdit = NoTextEdit
  /\ ServerIdle
  /\ ExecIdle
  /\ RuntimeIdle

NextParse == Parse \/ Convert

SpecParse == InitParse /\ [][NextParse]_vars

InitEdit ==
  /\ textEdit \in EditInputs
  /\ codeAction = NoCodeAction
  /\ parsed = NoParse
  /\ registered = EmptyRegistry
  /\ ServerIdle
  /\ ExecIdle
  /\ RuntimeIdle

NextEdit == GetTextEdit \/ ApplyEdit

SpecEdit == InitEdit /\ [][NextEdit]_vars

LintErrors == {"acquirer", "executor"}

Init ==
  /\ ServerIdle
  /\ ExecIdle
  /\ RuntimeIdle
  /\ QueryIdle

Next ==
  \/ \E b \in BOOLEAN : OnDidChangeConfiguration(b)
  \/ \E c \in Calls, u \in Uris, t \in Texts : OnDidChangeContent(c, u, t)
  \/ \E c \in Calls, u \in Uris : OnFixNotification(c, u)
  \/ \E c \in Calls, u \in Uris : OnWillSaveWaitUntil(c, u)
  \/ \E c \in Calls : WriteFileDone(c)
  \/ \E c \in Calls : \E out \in LintOutputs, code \in ExitCodes, w \in RewriteChoices(c) :
       LintClosed(c, out, code, w)
  \/ \E c \in Calls : \E e \in LintErrors, w \in RewriteChoices(c) : LintRejected(c, e, w)
  \/ \E c \in Calls : ReadFileDone(c)
  \/ \E c \in Calls : ReadFileFailed(c)
  \/ \E c \in Calls : DeleteFileDone(c)

Spec == Init /\ [][Next]_vars

\* two documents are open
Files == {"file:///a.sql", "file:///b.sql"}

InitFiles ==
  /\ documents = [u \in Files |-> [text |-> TextOne, version |-> 1]]
  /\ globalSettings = [autoFixOnSave |-> FALSE]
  /\ val = [c \in Calls |-> ValInit]
  /\ scratch = [c \in Calls |-> [exists |-> FALSE, content |-> << >>]]
  /\ fileErrors = EmptyRegistry
  /\ published = [u \in Files |-> << >>]
  /\ lastPass = [u \in Files |-> "none"]
  /\ ExecIdle
  /\ RuntimeIdle
  /\ QueryIdle

\* the validate calls of content changes (shouldFix null) and of fix
\* notifications (shouldFix true), for either file
NextFiles ==
  \/ \E c \in Calls, u \in Files, t \in {TextTwo} : OnDidChangeContent(c, u, t)
  \/ \E c \in Calls, u \in Files : OnFixNotification(c, u)
  \/ \E c \in Calls : WriteFileDone(c)
  \/ \E c \in Calls : \E out \in LintOutputs, code \in ExitCodes, w \in RewriteChoices(c) :
       LintClosed(c, out, code, w)
  \/ \E c \in Calls : \E e \in LintErrors, w \in RewriteChoices(c) : LintRejected(c, e, w)
  \/ \E c \in Calls : ReadFileDone(c)
  \/ \E c \in Calls : ReadFileFailed(c)
  \/ \E c \in Calls : DeleteFileDone(c)

SpecFiles == InitFiles /\ [][NextFiles]_vars

(***************************************************************************)
(* Claims about the Binary Executor (checked under SpecExec)               *)
(***************************************************************************)

\* C5: if the spawned process has not closed by the deadline timeoutMs
\* (30000 when not given), execute has killed it exactly once and has
\* rejected with a timeout error naming timeoutMs.
C5_TimeoutKillsAndRejects ==
  (exec.pc = "running" /\ ~exec.closed /\ ~exec.errored /\ clock >= exec.timeoutMs)
    => /\ exec.kills = 1
       /\ exec.outcome = "rejected"
       /\ exec.value = ErrorValue("timeout", exec.timeoutMs)

\* C6: when the spawned process closes before the timeout, execute resolves
\* with the result lines and the kill routine is never called.
C6_CloseBeforeTimeoutResolves ==
  (exec.closed /\ exec.closedAt < exec.timeoutMs /\ ~exec.errorFirst)
    => /\ exec.outcome = "resolved"
       /\ exec.value = LinesValue(ResultLines(exec.stdout))
       /\ exec.kills = 0

\* C7: once an execute call has settled, a later process event neither
\* changes its outcome nor is thrown.
C7_SettledIsFinal ==
  [][exec.outcome # "pending"
       => /\ exec'.outcome = exec.outcome
          /\ exec'.value = exec.value
          /\ ~exec'.uncaught]_vars

\* C7 witness: an error event arrived after the close event had resolved
\* the call
C7_Witness ==
  /\ exec.outcome = "resolved"
  /\ exec.closed /\ exec.errored /\ ~exec.errorFirst
  /\ exec.late = 1

\* C24: when spawn fails, execute has rejected with the spawn error in the
\* same step, before any time has passed and without a kill; when the
\* process emits an error event before it closes, execute has rejected with
\* that error, whatever the process does afterwards.
C24_SpawnAndProcessErrorsReject ==
  /\ exec.pc = "nospawn"
       => /\ exec.outcome = "rejected"
          /\ exec.value = ErrorValue("spawn", 0)
          /\ clock = 0
          /\ exec.kills = 0
  /\ exec.errorFirst
       => /\ exec.outcome = "rejected"
          /\ exec.value = ErrorValue("process", 0)
          /\ ~exec.uncaught

\* the process emitted an error event after some output and then closed with
\* exit code 0: the call stays rejected with the process error
C24_Witness ==
  /\ exec.errorFirst /\ exec.closed
  /\ exec.stdout # << >>
  /\ exec.late = 1
  /\ exec.outcome = "rejected" /\ exec.value.error = "process"


\* the lines of what the process wrote to standard output
OutputLines == split(exec.stdout, "\n")

\* line has an open parenthesis at a non-zero (0-based) index
ParenAfterStart(line) == \E i \in 2 .. Len(line) : line[i] = "("

\* the first open parenthesis of line is at a non-zero index
FirstParenAfterStart(line) == ParenAfterStart(line) /\ line[1] # "("

\* the 1-based position of the first open parenthesis of line
FirstParen(line) ==
  CHOOSE i \in 1 .. Len(line) : line[i] = "(" /\ \A j \in 1 .. i - 1 : line[j] # "("

\* line without its last character
DropLast(line) == SubSeq(line, 1, Len(line) - 1)

\* C31 as claimed: on normal exit execute returns, in order, exactly the
\* output lines that have an open parenthesis at a non-zero index, each
\* without its last character; the result is empty when no line matches.
C31_KeptLinesTruncated ==
  exec.outcome = "resolved"
    => LET kept == SelectSeq(OutputLines, ParenAfterStart)
       IN  exec.value.lines = [k \in 1 .. Len(kept) |-> DropLast(kept[k])]

\* C31 as amended: on normal exit execute returns, in order, one string for
\* each output line whose first open parenthesis is at a non-zero index: the
\* line from that parenthesis on, without the line's last character; lines
\* with no open parenthesis or beginning with one are discarded, and the
\* result is empty when no line matches.
C31_KeptLinesFromParenthesis ==
  exec.outcome = "resolved"
    => LET kept == SelectSeq(OutputLines, FirstParenAfterStart)
       IN  exec.value.lines
             = [k \in 1 .. Len(kept) |->
                  SubSeq(kept[k], FirstParen(kept[k]), Len(kept[k]) - 1)]

\* the process wrote a finding line and a line beginning with a parenthesis
\* that has a second one, and closed with exit code 0: one string is returned
C31_Witness ==
  /\ exec.outcome = "resolved"
  /\ exec.stdout = ChunkFinding \o ChunkTwoParens
  /\ exec.value.lines = << << "(", "1", ",", "1", ")", ":", " ", "r", ":", " ", "m" >> >>

(***************************************************************************)
(* Claims about the Runtime Acquirer (checked under SpecRuntime)           *)
(***************************************************************************)
Ended(r) == rt[r].pc \in {"resolved", "rejected"}

\* nothing is in flight: no call is between its start and its end, no
\* deleteFile is pending, no response is still being piped to the archive
Quiescent ==
  \A r \in RuntimeCalls :
    /\ rt[r].pc \in {"idle", "resolved", "rejected"}
    /\ rt[r].unlink # "pending"
    /\ rt[r].pipe # "open"

\* C4: among TSQLLintRuntime calls that overlap before the first of them has
\* ended, at most one download of the archive is started.
C4_OneDownloadForOverlappingCalls ==
  (\A r \in RuntimeCalls : ~Ended(r))
    => Cardinality({r \in RuntimeCalls : rt[r].downloads > 0}) <= 1

\* C8: the memoized location is absent until it is written, it is written
\* at most once, and a call made after it is set returns it with no
\* existence check and no download.
C8_LocationWrittenOnce ==
  /\ (tsqllintToolsPath = Unset) <=> (pathWrites = 0)
  /\ pathWrites <= 1
  /\ \A r \in RuntimeCalls :
       rt[r].afterSet => /\ rt[r].pc = "resolved"
                         /\ rt[r].result = tsqllintToolsPath
                         /\ ~rt[r].checked
                         /\ rt[r].downloads = 0

\* C9: a call whose download or extraction failed has rejected after at most
\* one download and has returned no location; the location stays absent
\* unless some call succeeded; and once nothing is in flight the install
\* directory is clean (no archive, no platform directory), so that the next
\* call acquires again. (A deleteFile that itself failed is excused.)
C9_FailedCallLeavesCleanState ==
  \A r \in RuntimeCalls :
    (rt[r].pc = "rejected" /\ rt[r].err \in {"status", "transport", "extract"})
      => /\ rt[r].downloads <= 1
         /\ rt[r].result = Unset
         /\ (\A q \in RuntimeCalls : rt[q].pc # "resolved") => tsqllintToolsPath = Unset
         /\ ( /\ Quiescent
              /\ tsqllintToolsPath = Unset
              /\ \A q \in RuntimeCalls : rt[q].unlink # "failed" )
            => (~disk.archive /\ ~disk.platformDir)

DownloadFailed(r) ==
  rt[r].pc = "rejected" /\ rt[r].err \in {"status", "transport"}

DocumentedTag(h) ==
  CASE h.osType = "Darwin" -> "osx-x64"
    [] h.osType = "Linux" -> "linux-x64"
    [] h.osType = "Windows_NT" /\ h.arch = "ia32" -> "win-x86"
    [] h.osType = "Windows_NT" /\ h.arch # "ia32" -> "win-x64"
    [] OTHER -> "unsupported"

\* C21: the platform tag is a function of (OS type, CPU architecture) alone:
\* Darwin gives osx-x64, Linux linux-x64, Windows win-x86 on a 32-bit
\* architecture and win-x64 on any other, every other OS type the
\* unsupported-platform error; on such a host every TSQLLintRuntime call made
\* without a memoized location has failed with that error, checked nothing
\* and downloaded nothing.
C21_PlatformResolutionTotal ==
  /\ getPlatform(host) = DocumentedTag(host)
  /\ DocumentedTag(host) = "unsupported"
       => /\ tsqllintToolsPath = Unset
          /\ \A r \in RuntimeCalls :
               rt[r].pc # "idle"
                 => /\ rt[r].pc = "rejected" /\ rt[r].err = "unsupported"
                    /\ ~rt[r].checked /\ rt[r].downloads = 0
  /\ DocumentedTag(host) # "unsupported"
       => \A r \in RuntimeCalls : rt[r].err # "unsupported"

\* a call on SunOS has failed with the unsupported-platform error
C21_Witness ==
  /\ host.osType = "SunOS"
  /\ \E r \in RuntimeCalls : rt[r].pc = "rejected" /\ rt[r].err = "unsupported"

\* call r has started a download of the archive
Downloaded(r) == rt[r].downloads > 0

\* C25: once the calls that downloaded the archive have ended and nothing is
\* in flight, the archive <platform>.tgz is not in the install directory,
\* after a successful extraction as after a failure. (A deleteFile that
\* itself failed is excused.)
C25_ArchiveDeletedAfterCall ==
  ( /\ Quiescent
    /\ \E r \in RuntimeCalls : Ended(r) /\ Downloaded(r)
    /\ \A q \in RuntimeCalls : rt[q].unlink # "failed" )
  => ~disk.archive

\* call r is downloading the archive or extracting it
Acquiring(r) == rt[r].pc \in {"request", "piping", "unzip"}

\* C29: no call returns a location, and none memoizes one, in a step taken
\* while another call is still downloading or extracting the archive.
C29_NoLocationDuringAcquisition ==
  [][\A r \in RuntimeCalls :
       ( \/ rt[r].pc # "resolved" /\ rt'[r].pc = "resolved"
         \/ rt[r].pc # "idle" /\ ~Ended(r) /\ tsqllintToolsPath' # tsqllintToolsPath )
         => \A q \in RuntimeCalls \ {r} : ~Acquiring(q)]_vars

\* C34: a call made while no location is memoized and the platform
\* directory exists goes on to ask exists() without touching the disk; the
\* step that answers exists() for a call while the platform directory exists
\* memoizes the install directory and returns it to the call, and neither
\* creates a directory, nor starts a download, nor extracts anything.
C34_ExistingRuntimeIsMemoized ==
  [][\A r \in RuntimeCalls :
       /\ ( /\ rt[r].pc = "idle" /\ rt'[r].pc # "idle"
            /\ tsqllintToolsPath = Unset
            /\ getPlatform(host) # "unsupported"
            /\ disk.platformDir )
           => /\ rt'[r].pc = "exists"
              /\ disk' = disk
              /\ rt'[r].downloads = 0
       /\ ( /\ rt[r].pc = "exists" /\ rt'[r] # rt[r]
            /\ disk.platformDir )
           => /\ rt'[r].pc = "resolved"
              /\ rt'[r].result = InstallDirectory
              /\ tsqllintToolsPath' = InstallDirectory
              /\ disk' = disk
              /\ rt'[r].downloads = 0
              /\ ~rt'[r].mkdirFailed
              /\ rt'[r].pipe = "none"]_vars

\* a call found the platform directory in place and returned the install
\* directory: no archive was written and no download was started
C34_Witness ==
  \E r \in RuntimeCalls :
    /\ rt[r].pc = "resolved"
    /\ rt[r].checked
    /\ rt[r].result = InstallDirectory
    /\ tsqllintToolsPath = InstallDirectory
    /\ \A q \in RuntimeCalls : rt[q].downloads = 0
    /\ disk.platformDir
    /\ ~disk.archive

(***************************************************************************)
(* Claims about the Validation Pipeline (specification Spec)               *)
(***************************************************************************)
ValidateEnded(c) == val[c].pc \in {"returned", "failed"}

LintFailed(c) == val[c].pc = "failed" /\ val[c].err \in LintErrors

\* C1: after any validate call has ended (normal return, failure of the
\* binary invocation, failure of the fix-read step), the scratch file that
\* the call created no longer exists.
C1_ScratchDeletedOnEveryExit ==
  \A c \in Calls : ValidateEnded(c) => ~scratch[c].exists

\* C2: after a validate call for a file failed with an executor or acquirer
\* error, the diagnostics published for that file are empty, and they stay
\* empty until the next successful validate of that file.
C2_FailedPassLeavesNoDiagnostics ==
  \A u \in Uris : lastPass[u] = "failed" => published[u] = << >>

\* C3: when the binary invocation of a validate call fails, the step that
\* handles the failure replaces the Command Registry entry of the call's file
\* by the empty finding set, ends the call with the failure it caught, and
\* publishes nothing: the call has published no diagnostics and the client's
\* diagnostics are as they were.
C3_InvocationFailureClearsRegistry ==
  [][\A c \in Calls :
       (val[c].pc = "linting" /\ val'[c].pc = "failed")
         => /\ val[c].uri \in DOMAIN fileErrors'
            /\ fileErrors'[val[c].uri] = << >>
            /\ val'[c].err \in LintErrors
            /\ val'[c].publications = 0
            /\ published' = published]_vars

\* a call failed at the binary invocation after an earlier pass had registered
\* and published findings for the file: the registry entry is empty now
C3_Witness ==
  \E c \in Calls :
    /\ LintFailed(c)
    /\ val[c].publications = 0
    /\ lastPass[val[c].uri] = "failed"
    /\ fileErrors[val[c].uri] = << >>
    /\ published[val[c].uri] # << >>

\* the step enters call c's handler
Entered(c) == val[c].pc = "idle" /\ val'[c].pc # "idle"

\* the step of call c that calls LintBuffer, and so runs the binary
Invoked(c) == val[c].pc # "linting" /\ val'[c].pc = "linting"

\* the binary of call c is run with the fix flag
FixFlag(c) == "-x" \in Range(LintArgs(val[c].shouldFix))

\* C22: the binary is run with -x exactly for a fix notification, whatever
\* autoFixOnSave says, and for a will-save event entered while autoFixOnSave
\* is true; a will-save event entered while it is false returns no edits at
\* once and never runs the binary; a content-changed event runs it without -x.
C22_FixFlagExactlyWhenFixing ==
  [][\A c \in Calls :
       /\ Entered(c)
            => IF val'[c].kind = "willSave" /\ ~globalSettings.autoFixOnSave
               THEN /\ val'[c].pc = "returned"
                    /\ Edits(c)' = << >>
                    /\ scratch' = scratch
               ELSE /\ val'[c].pc = "writing"
                    /\ val'[c].shouldFix <=> val'[c].kind \in {"fix", "willSave"}
       /\ Invoked(c)
            => /\ val[c].pc = "writing"
               /\ FixFlag(c)' <=> \/ val[c].kind = "fix"
                                  \/ val[c].kind = "willSave"
               /\ val[c].kind \in {"fix", "willSave", "change"}
       /\ val[c].pc # "idle"
            => val'[c].kind = val[c].kind /\ val'[c].shouldFix = val[c].shouldFix]_vars

\* a will-save call entered while autoFixOnSave was true runs the binary with
\* -x although the setting is false by now, after a will-save call entered
\* while it was false has returned no edits
C22_Witness ==
  \E c, d \in Calls :
    /\ val[c].kind = "willSave" /\ val[c].pc = "returned" /\ Edits(c) = << >>
    /\ val[d].kind = "willSave" /\ val[d].pc = "linting" /\ FixFlag(d)
    /\ ~globalSettings.autoFixOnSave

\* the step in which call c parses the output and publishes
Published(c) == val'[c].publications # val[c].publications

\* the step in which call c's scratch file is deleted
Deleted(c) == scratch[c].exists /\ ~scratch'[c].exists

\* C26: within one validate call, the binary is invoked only in the step that
\* completes the scratch write; the output is parsed and published only in
\* the step that ends the binary run; the fix read happens after that; and
\* the scratch file is deleted only after the publication, and after the fix
\* read when shouldFix.
C26_StepsInOrder ==
  [][\A c \in Calls :
       /\ Invoked(c) => val[c].pc = "writing" /\ scratch'[c].exists
       /\ Published(c)
            => /\ val[c].pc = "linting" /\ scratch[c].exists
               /\ val[c].publications = 0 /\ val'[c].publications = 1
               /\ val'[c].pc = IF val[c].shouldFix THEN "reading" ELSE "deleting"
       /\ val'[c].updated # val[c].updated
            => val[c].pc = "reading" /\ val[c].publications = 1 /\ scratch[c].exists
       /\ Deleted(c)
            => /\ val[c].pc = "deleting"
               /\ val[c].publications = 1
               /\ val[c].shouldFix => val[c].updated # Null]_vars

\* a fix call went through all steps: it published once, read the rewritten
\* scratch file, deleted it and returned
C26_Witness ==
  \E c \in Calls :
    /\ val[c].kind = "fix" /\ val[c].pc = "returned"
    /\ val[c].publications = 1
    /\ val[c].updated = Some(Fixed(documents[val[c].uri].text))
    /\ ~scratch[c].exists

\* the step that ends the binary run of call c
RunCompleted(c) == val[c].pc = "linting" /\ val'[c].pc # "linting"

\* call c's run is the last to complete among overlapping calls for its
\* file: another call for the file is still in flight, and every other call
\* for the file that is in flight has its binary run behind it
LastOfOverlapping(c) ==
  /\ \E d \in Calls \ {c} : val[d].uri = val[c].uri /\ val[d].pc \in {"reading", "deleting"}
  /\ \A d \in Calls \ {c} : val[d].uri = val[c].uri => val[d].pc \notin {"writing", "linting"}

\* the findings stored in a registry entry
ErrorsOf(entries) == [i \in 1 .. Len(entries) |-> entries[i].error]

\* C27: when the binary run of a validate call completes last among
\* overlapping calls for the same file, the registry entry and the published
\* diagnostics of the file are from then on those of that call: its findings
\* when the run succeeded, none when it failed.
C27_LastCompletedRunWins ==
  [][\A c \in Calls :
       (RunCompleted(c) /\ LastOfOverlapping(c))
         => LET uri == val[c].uri
            IN  IF val'[c].pc = "failed"
                THEN /\ ErrorsOf(fileErrors'[uri]) = << >>
                     /\ published'[uri] = << >>
                ELSE \E out \in LintOutputs :
                       LET errors == parseErrors(documents[uri].text, ResultLines(out))
                       IN  /\ ErrorsOf(fileErrors'[uri]) = errors
                           /\ published'[uri] = toDiagnostics(errors)]_vars

\* C28: one validate or fix run uses a single document snapshot: the
\* diagnostics it publishes are the findings parsed against the text that was
\* written to the scratch file (as it was before the binary rewrote it), and
\* the version sent with the workspace edit of a fix is the version of that
\* text, also when the document is edited while the binary runs.
C28_SingleSnapshot ==
  [][\A c \in Calls :
       /\ (RunCompleted(c) /\ val'[c].pc # "failed")
            => \E out \in LintOutputs :
                 published'[val[c].uri]
                   = toDiagnostics(parseErrors(scratch[c].content, ResultLines(out)))
       /\ val'[c].applied # val[c].applied
            => /\ Len(val'[c].applied) = 1
               /\ val'[c].applied[1].version = val[c].writtenVersion]_vars

C35_ReturnsScratchContentOnlyWhenFixing ==
  [][\A c \in Calls :
       /\ (val[c].pc = "deleting" /\ val'[c].pc = "returned")
            => val'[c].updated = IF val[c].shouldFix THEN Some(scratch[c].content) ELSE Null
       /\ (val[c].pc = "linting" /\ val'[c].pc = "reading")
            => val[c].shouldFix /\ scratch'[c].content \in
                 {scratch[c].content, Fixed(scratch[c].content)}
       /\ (val[c].pc = "reading" /\ val'[c].pc = "deleting")
            => scratch'[c] = scratch[c]
       /\ ~val'[c].shouldFix
            => val'[c].pc # "reading" /\ val'[c].updated = Null]_vars

\* a fix call has returned the content the binary rewrote, and a change call
\* has returned null
C35_Witness ==
  \E c, d \in Calls :
    /\ val[c].pc = "returned" /\ val[c].kind = "fix"
    /\ val[c].updated = Some(Fixed(documents[val[c].uri].text))
    /\ val[d].pc = "returned" /\ val[d].kind = "change"
    /\ val[d].updated = Null

\* what the Command Registry holds for file u, Null when it has no entry
EntryOf(registry, u) == IF u \in DOMAIN registry THEN Some(registry[u]) ELSE Null

\* C37: under any interleaving of validate calls, a step of a validate call
\* for one file changes neither the Command Registry entry nor the published
\* diagnostics of any other file.
C37_OtherFilesUntouched ==
  [][\A c \in Calls :
       (val'[c] # val[c] /\ val'[c].uri \in Files)
         => \A u \in Files \ {val'[c].uri} :
              /\ EntryOf(fileErrors', u) = EntryOf(fileErrors, u)
              /\ published'[u] = published[u]]_vars

\* two calls for different files were in flight together; one published
\* findings for its file, the other failed and emptied its own entry, and
\* each file shows its own call's outcome only
C37_Witness ==
  \E c, d \in Calls :
    /\ val[c].uri \in Files /\ val[d].uri \in Files /\ val[c].uri # val[d].uri
    /\ val[c].pc = "returned" /\ val[c].publications = 1
    /\ val[d].pc = "failed" /\ val[d].err \in LintErrors
    /\ published[val[c].uri] # << >>
    /\ published[val[d].uri] = << >>
    /\ val[c].uri \in DOMAIN fileErrors /\ fileErrors[val[c].uri] # << >>
    /\ val[d].uri \in DOMAIN fileErrors /\ fileErrors[val[d].uri] = << >>

\* C38: a call whose fix-validation failed has sent no workspace edit, and a
\* workspace edit is sent only in the step in which the fix-validation of a
\* fix notification returns, after its binary run and its read of the scratch
\* file succeeded.
C38_EditOnlyAfterSuccessfulFix ==
  [][\A c \in Calls :
       /\ val'[c].pc = "failed" => val'[c].applied = << >>
       /\ val'[c].applied # val[c].applied
            => /\ val[c].applied = << >>
               /\ val[c].kind = "fix" /\ val[c].shouldFix
               /\ val[c].pc = "deleting" /\ val'[c].pc = "returned"
               /\ val[c].publications = 1
               /\ val[c].updated # Null
               /\ val[c].err = "none"
               /\ Len(val'[c].applied) = 1
               /\ val'[c].applied[1].uri = val[c].uri]_vars

\* one fix call failed reading its scratch file back and sent nothing, and
\* another fix call completed and sent its workspace edit
C38_Witness ==
  \E c, d \in Calls :
    /\ val[c].kind = "fix" /\ val[c].pc = "failed" /\ val[c].err = "read"
    /\ val[c].applied = << >>
    /\ val[d].kind = "fix" /\ val[d].pc = "returned"
    /\ val[d].applied # << >>

(***************************************************************************)
(* Claims about the Command Registry (specification SpecRegistry)          *)
(***************************************************************************)
\* the step is a code-action request being answered
Answered == codeAction' # codeAction

\* the rule an action names in its title
RuleOf(command) == SubSeq(command.title, 2, Len(command.title) - 1)

\* the findings of the latest registration of the file the request is for
Latest == IF codeAction.uri \in DOMAIN registered
          THEN registered[codeAction.uri].errors ELSE << >>

\* finding f overlaps range r: NOT(f.end < r.start OR f.start > r.end),
\* positions ordered by line, then character
Before(a, b) == a.line < b.line \/ (a.line = b.line /\ a.character < b.character)
Overlaps(f, r) == ~(Before(f.range.end, r.start) \/ Before(r.end, f.range.start))

\* C11: a registration fully replaces the previous set of its file: the
\* registry holds one set per file, whose entries are the findings of the
\* latest registration of that file, one for one; and every action an answer
\* carries is for a finding of that latest registration.
C11_RegistrationReplaces ==
  [][/\ DOMAIN fileErrors' = DOMAIN registered'
     /\ \A u \in DOMAIN fileErrors' :
          /\ Len(fileErrors'[u]) = Len(registered'[u].errors)
          /\ \A i \in 1 .. Len(fileErrors'[u]) :
               fileErrors'[u][i].error = registered'[u].errors[i]
     /\ Answered =>
          \A k \in 1 .. Len(codeAction'.commands) :
            \E i \in 1 .. Len(Latest') :
              /\ RuleOf(codeAction'.commands[k]) = Latest'[i].rule
              /\ Overlaps(Latest'[i], codeAction'.range)]_vars

\* the file was registered again with findings of another rule, and a request
\* made since is answered with actions
C11_Witness ==
  /\ codeAction.asked
  /\ codeAction.uri \in DOMAIN registered
  /\ codeAction.commands # << >>
  /\ codeAction.commands = getCommands(fileErrors, codeAction)
  /\ \E rule \in registered[codeAction.uri].superseded :
       rule \notin RulesOf(registered[codeAction.uri].errors)

\* the positions, in the latest registration, of the findings that overlap
\* the request's range, in stored order
OverlappingIndices ==
  SelectSeq([i \in 1 .. Len(Latest) |-> i],
            LAMBDA i : Overlaps(Latest[i], codeAction.range))

IsLineAction(command) == command.title[Len(command.title)] = " for this line"
IsFileAction(command) == command.title[Len(command.title)] = " for this file"

\* command is an action for finding f
ActionFor(command, f) == RuleOf(command) = f.rule /\ command.arguments[1] = codeAction.uri

LineActionFor(command, f) ==
  /\ IsLineAction(command)
  /\ ActionFor(command, f)
  /\ command.arguments[2] = f.range.start.line

\* C12 for the latest answer
OverlapDecides ==
  \A i \in 1 .. Len(Latest) :
    Overlaps(Latest[i], codeAction.range)
      <=> \E k \in 1 .. Len(codeAction.commands) :
            LineActionFor(codeAction.commands[k], Latest[i])

C13_UnregisteredFileHasNoActions ==
  (codeAction.asked /\ codeAction.uri \notin DOMAIN fileErrors)
    => codeAction.commands = << >>

\* a request for an unregistered file was answered while the registry held
\* findings of another file
C13_Witness ==
  /\ codeAction.asked
  /\ codeAction.uri \notin DOMAIN fileErrors
  /\ codeAction.commands = << >>
  /\ \E u \in DOMAIN fileErrors :
       \E i \in 1 .. Len(fileErrors[u]) :
         Overlaps(fileErrors[u][i].error, codeAction.range)

\* C14 for the latest answer
TwoActionsInStoredOrder ==
  /\ Len(codeAction.commands) = 2 * Len(OverlappingIndices)
  /\ \A j \in 1 .. Len(OverlappingIndices) :
       LET f == Latest[OverlappingIndices[j]]
       IN  /\ 2 * j <= Len(codeAction.commands)
           /\ LineActionFor(codeAction.commands[2 * j - 1], f)
           /\ IsFileAction(codeAction.commands[2 * j])
           /\ ActionFor(codeAction.commands[2 * j], f)

FileDisableText(rule) ==
  << "/", "*", " ", "t", "s", "q", "l", "l", "i", "n", "t", "-", "d", "i", "s", "a", "b",
     "l", "e", " " >> \o rule \o << " ", "*", "/", "\n" >>

Origin == [line |-> 0, character |-> 0]

\* C15: the disable-for-file action of every finding, whatever the finding's
\* own range, is one text edit with the empty range (0,0)-(0,0) and the text
\* "/* tsqllint-disable <rule> */\n" for the finding's rule.
C15_FileDisableAtOrigin ==
  \A k \in 1 .. Len(codeAction.commands) :
    LET command == codeAction.commands[k]
    IN  IsFileAction(command)
          => /\ Len(command.arguments[3]) = 1
             /\ command.arguments[3][1].range = [start |-> Origin, end |-> Origin]
             /\ command.arguments[3][1].newText = FileDisableText(RuleOf(command))

\* an answer with the file action of a finding that is not on the first line
C15_Witness ==
  \E k \in 1 .. Len(codeAction.commands) :
    /\ k > 1
    /\ IsFileAction(codeAction.commands[k])
    /\ codeAction.commands[k - 1].arguments[2] > 0
    /\ codeAction.commands[k].arguments[3][1].range.start = Origin

\* the lines of the document file u was last registered with
RegisteredLines(u) == split(documents[u].text, "\n")

\* p is exactly the leading whitespace of line
IsLeadingWhitespaceOf(p, line) ==
  /\ Len(p) <= Len(line)
  /\ p = SubSeq(line, 1, Len(p))
  /\ \A i \in 1 .. Len(p) : p[i] \in {" ", "\t"}
  /\ Len(p) < Len(line) => line[Len(p) + 1] \notin {" ", "\t"}

EnableCommentText(rule) ==
  << "/", "*", " ", "t", "s", "q", "l", "l", "i", "n", "t", "-", "e", "n", "a", "b", "l",
     "e", " " >> \o rule \o << " ", "*", "/" >>

DisableCommentText(rule) ==
  << "/", "*", " ", "t", "s", "q", "l", "l", "i", "n", "t", "-", "d", "i", "s", "a", "b",
     "l", "e", " " >> \o rule \o << " ", "*", "/" >>

MappedAt(keep) ==
  LET indices == SelectSeq([i \in 1 .. Len(parsed.given) |-> i], LAMBDA i : keep[i])
  IN  [j \in 1 .. Len(indices) |-> parsed.mapped[indices[j]]]

Malformed(i) == parsed.given[i].grammar = "none"

\* C17: parse never fails; a malformed raw line contributes no finding, and
\* the findings returned are those of the other raw lines of the batch, in
\* order, each unchanged by the malformed lines around it.
C17_MalformedLinesContributeNothing ==
  parsed.done =>
    /\ Len(parsed.mapped) = Len(parsed.given)
    /\ \A i \in 1 .. Len(parsed.given) : Malformed(i) => ~isValidError(parsed.mapped[i])
    /\ parsed.result
         = MappedAt([i \in 1 .. Len(parsed.given) |-> ~Malformed(i) /\ isValidError(parsed.mapped[i])])

\* C18 as claimed: a raw line whose line number is unparsable or below 1 is
\* mapped to the sentinel line -1 and returns no finding, so every returned
\* finding has range.start.line >= 0 and comes from a line number >= 1.
C18_LowLineNumbersAreFiltered ==
  parsed.done =>
    /\ \A i \in 1 .. Len(parsed.given) :
         (~parsed.given[i].converts \/ parsed.given[i].n < 1)
           => parsed.mapped[i].range.start.line = -1
    /\ parsed.result
         = MappedAt([i \in 1 .. Len(parsed.given) |-> parsed.given[i].converts /\ parsed.given[i].n >= 1])
    /\ \A k \in 1 .. Len(parsed.result) : parsed.result[k].range.start.line >= 0

\* C18 as amended: a raw line whose line-number segment does not convert to a
\* finite number is mapped to the sentinel line -1 and returns no finding; a
\* line whose segment converts to n returns a finding on line max(n - 1, 0),
\* so a line number below 1 is clamped to the first line and kept; every
\* returned finding has range.start.line >= 0.
C18_UnparsableLineNumbersAreFiltered ==
  parsed.done =>
    /\ \A i \in 1 .. Len(parsed.given) :
         parsed.mapped[i].range.start.line
           = IF ~parsed.given[i].converts THEN -1
             ELSE IF parsed.given[i].n >= 1 THEN parsed.given[i].n - 1
             ELSE 0
    /\ parsed.result = MappedAt([i \in 1 .. Len(parsed.given) |-> parsed.given[i].converts])
    /\ \A k \in 1 .. Len(parsed.result) : parsed.result[k].range.start.line >= 0

\* a batch with an unparsable line number, which returns nothing, and a line
\* number below 1, which returns a finding on line 0
C18_Witness ==
  /\ parsed.done
  /\ Len(parsed.given) = 2
  /\ ~parsed.given[1].converts
  /\ parsed.given[2].grammar = "plain" /\ parsed.given[2].converts /\ parsed.given[2].n < 1
  /\ Len(parsed.result) = 1
  /\ parsed.result[1].range.start.line = 0

WellFormedPlain(i) == parsed.given[i].grammar = "plain" /\ parsed.given[i].converts
                        /\ parsed.given[i].n >= 1

\* C19: a well-formed plain line "(L,C): R: M" with L >= 1 (R not starting
\* with the token error or warning, M without surrounding whitespace or a
\* trailing colon) yields exactly one finding, with rule R, severity Error,
\* range.start.line = L - 1 and message M.
C19_PlainLineRoundTrip ==
  parsed.done =>
    /\ \A i \in 1 .. Len(parsed.given) :
         WellFormedPlain(i)
           => /\ isValidError(parsed.mapped[i])
              /\ parsed.mapped[i].rule = parsed.given[i].rule
              /\ parsed.mapped[i].severity = SeverityError
              /\ parsed.mapped[i].range.start.line = parsed.given[i].n - 1
              /\ parsed.mapped[i].range.end.line = parsed.given[i].n - 1
              /\ parsed.mapped[i].message = parsed.given[i].message
    /\ (Len(parsed.given) = 1 /\ WellFormedPlain(1))
         => parsed.result = << parsed.mapped[1] >>

\* the line "(3,5): a  b: a:b" alone, parsed against a text of three lines
C19_Witness ==
  /\ parsed.done
  /\ Len(split(parsed.docText, "\n")) = 3
  /\ Len(parsed.given) = 1
  /\ WellFormedPlain(1)
  /\ parsed.given[1].n = 3
  /\ Len(parsed.result) = 1
  /\ parsed.result[1].range.start.line = 2
  /\ parsed.result[1].message = << "a", ":", "b" >>

\* C20: for a line whose second segment starts with the token error or
\* warning in any letter case, the severity is that severity and the rule is
\* the remaining tokens joined by single spaces; for every other line the
\* severity is Error and the rule is the whole trimmed second segment.
C20_SeverityPrefix ==
  parsed.done =>
    \A i \in 1 .. Len(parsed.given) :
      /\ parsed.mapped[i].severity = parsed.given[i].severity
      /\ parsed.mapped[i].rule = parsed.given[i].rule

\* a batch with a mixed-case warning line whose rule tokens are two spaces
\* apart, and a plain line whose rule merely begins with the letters of error
C20_Witness ==
  /\ parsed.done
  /\ \E i \in 1 .. Len(parsed.given) :
       /\ parsed.given[i].grammar = "prefixed"
       /\ parsed.given[i].text[8] = "W"
       /\ parsed.mapped[i].severity = SeverityWarning
       /\ parsed.mapped[i].rule = << "a", " ", "b" >>
  /\ \E i \in 1 .. Len(parsed.given) :
       /\ parsed.given[i].grammar = "plain"
       /\ parsed.mapped[i].severity = SeverityError
       /\ parsed.mapped[i].rule = << "e", "r", "r", "o", "r", "s" >>

\* the lines of the text the raw lines were parsed against
DocLines == split(parsed.docText, "\n")

Blank(line) == \A i \in 1 .. Len(line) : IsSpace(line[i])

\* the 0-based index of the first character of line that is not whitespace
FirstNonSpace(line) ==
  (CHOOSE i \in 1 .. Len(line) :
     ~IsSpace(line[i]) /\ \A j \in 1 .. i - 1 : IsSpace(line[j])) - 1

\* C32 as claimed: every returned finding has start.line = end.line, its
\* start character is the index of the first non-whitespace character of that
\* source line, or 0 when the line is entirely whitespace, its end character
\* is the length of that source line, and start.character <= end.character.
C32_RangeSpansTrimmedLine ==
  parsed.done =>
    \A k \in 1 .. Len(parsed.result) :
      LET range == parsed.result[k].range
      IN  /\ range.start.line = range.end.line
          /\ range.start.line + 1 <= Len(DocLines)
               => LET line == DocLines[range.start.line + 1]
                  IN  /\ range.start.character
                           = IF Blank(line) THEN 0 ELSE FirstNonSpace(line)
                      /\ range.end.character = Len(line)
          /\ range.start.character <= range.end.character

\* C32 as amended: every returned finding has start.line = end.line; when
\* the text has that line, the start character is the number of leading
\* whitespace characters of the line (the index of its first non-whitespace
\* character, or the length of the line when it is entirely whitespace) and
\* the end character is the length of the line; when the text has no such
\* line, both are 0; in each case start.character <= end.character.
C32_RangeSpansLineAfterIndentation ==
  parsed.done =>
    \A k \in 1 .. Len(parsed.result) :
      LET range == parsed.result[k].range
      IN  /\ range.start.line = range.end.line
          /\ IF range.start.line + 1 <= Len(DocLines)
             THEN LET line == DocLines[range.start.line + 1]
                  IN  /\ range.start.character
                           = IF Blank(line) THEN Len(line) ELSE FirstNonSpace(line)
                      /\ range.end.character = Len(line)
             ELSE range.start.character = 0 /\ range.end.character = 0
          /\ range.start.character <= range.end.character

\* findings were returned for a line of whitespace only and for a line the
\* text does not have
C32_Witness ==
  /\ parsed.done
  /\ parsed.docText = TextBlank
  /\ Len(parsed.result) = 2
  /\ parsed.result[1].range.start = [line |-> 0, character |-> 2]
  /\ parsed.result[1].range.end = [line |-> 0, character |-> 2]
  /\ parsed.result[2].range.start = [line |-> 2, character |-> 0]

\* the colon-delimited segments of given line i after the second one
MessageSegments(i) ==
  LET parts == split(parsed.given[i].text, ":")
  IN  SubSeq(parts, 3, Len(parts))

\* segs without its last segment
Front(segs) == SubSeq(segs, 1, Len(segs) - 1)

\* given line j is given line i with a colon appended
ColonAppended(i, j) == parsed.given[j].text = parsed.given[i].text \o << ":" >>

SourceLabel == << "T", "S", "Q", "L", "L", "i", "n", "t", ":", " " >>

\* diagnostics carries one diagnostic per finding, in order, each with the
\* finding's severity, range and message and the source "TSQLLint: <rule>"
ConvertedFaithfully(findings, diagnostics) ==
  /\ Len(diagnostics) = Len(findings)
  /\ \A k \in 1 .. Len(findings) :
       /\ diagnostics[k].severity = findings[k].severity
       /\ diagnostics[k].range = findings[k].range
       /\ diagnostics[k].message = findings[k].message
       /\ diagnostics[k].source = SourceLabel \o findings[k].rule

\* C23: converting findings to diagnostics, by the pipeline's toDiagnostic or
\* by DiagnosticConverter.toDiagnostics, yields one diagnostic per finding in
\* the same order, each with that finding's severity, range and message and
\* the source label "TSQLLint: <rule>".
C23_OneDiagnosticPerFinding ==
  parsed.converted
    => /\ ConvertedFaithfully(parsed.result, parsed.byPipeline)
       /\ ConvertedFaithfully(parsed.result, parsed.byConverter)

(***************************************************************************)
(* Claims about the fix edit (specification SpecEdit)                      *)
(***************************************************************************)
\* the position at the end of a document
EndOf(document) ==
  [line |-> Len(document) - 1, character |-> Len(document[Len(document)])]

\* position p is at or after position q
AtOrAfter(p, q) ==
  p.line > q.line \/ (p.line = q.line /\ p.character >= q.character)

\* C36: for every document, whatever its number of lines, a completed fix
\* produces exactly one text edit, whose range starts at the start of the
\* document and ends at or after its end, and whose new text is the fixed
\* content; once applied, the document is exactly the fixed content.
C36_OneEditReplacesWholeDocument ==
  textEdit.done =>
    /\ Len(textEdit.edits) = 1
    /\ textEdit.edits[1].newText = textEdit.test
    /\ textEdit.edits[1].range.start = [line |-> 0, character |-> 0]
    /\ AtOrAfter(textEdit.edits[1].range.end, EndOf(textEdit.document))
    /\ textEdit.applied => textEdit.after = split(textEdit.test, "\n")

====
